---- MODULE Spec2Model ----
(***************************************************************************)
(* A model of the Talaria broker's wire codec for BeginQuorumEpochRequest  *)
(* (protocol/begin_quorum_epoch_request.go), of its registry methods and   *)
(* of the security-protocol parser.                                        *)
(*                                                                         *)
(* The packetEncoder and packetDecoder that the generated codec calls are  *)
(* not among the source files; they are modelled from the specification's  *)
(* sections 4.1-4.3 and 7 (big-endian integers, int16 string length,       *)
(* int32 array count, -1 as the null sentinel, InsufficientData and        *)
(* MalformedLength on decode, EncodeValueTooLarge on encode).              *)
(*                                                                         *)
(* Go values are modelled as follows.                                      *)
(*   string            a sequence of code points                           *)
(*   *string           [isNil, val]                                        *)
(*   []T               [isNil, elems]: a nil slice and an empty non-nil    *)
(*                     slice are different values with the same length     *)
(*   error             "nil" or the name of the error                      *)
(*   int32 / int16     an integer of that range; the wire bytes are        *)
(*                     computed in two's complement                        *)
(***************************************************************************)
EXTENDS Integers, Sequences, FiniteSets, TLC

VARIABLES
    pc,         \* codec scenario: "build" or "given", "encoded", "decoded" ("unused" elsewhere)
    msg,        \* the BeginQuorumEpochRequest being built and encoded
    enc,        \* encode's outcome: the request after the call (obj), the
                \* encoder with its bytes and the log of its puts (e), the error (err)
    frameKind,  \* the bytes handed to decode: "none", "whole", "prefix", "nullcount"
    dec,        \* decode's outcome: the request it was called on (obj), the
                \* decoder with the frame and the log of its reads (d), the error (err)
    regPc,      \* registry scenario: "new", "set", "queried" ("unused" elsewhere)
    regReq,     \* the request whose registry methods are called
    regOut,     \* the answers of GetKey, GetHeaderVersion, IsValidVersion
    secPc,      \* security-protocol scenario: "input", "parsed" ("unused" elsewhere)
    secIn,      \* the string given to ParseSecurityProtocol
    secOut,     \* its two results
    cfgPc,      \* broker configuration scenarios: "build" or "input", "done" ("unused" elsewhere)
    env,        \* the environment: for each setting, whether it is set and its value
    cfgArg,     \* the string given to parseListener
    broker,     \* the config.Broker given to validateListeners and validateAdvertisedListeners
    cfgOut,     \* the results of the function called, and the broker after the call
    handlers,   \* logger scenario: the CustomHandlers made so far (<<>> elsewhere)
    mu,         \* for each sync.Mutex, the goroutine that holds it, 0 when unlocked
    bufPool,    \* sync.Pool: the buffers put back (free), and the number made by New
    gor,        \* each goroutine's Handle call: its position, handler, record and buffer
    out         \* the io.Writer: the Write calls made, and the goroutines inside Write

codecVars == <<pc, msg, enc, frameKind, dec>>
regVars == <<regPc, regReq, regOut>>
secVars == <<secPc, secIn, secOut>>
cfgVars == <<cfgPc, env, cfgArg, broker, cfgOut>>
logVars == <<handlers, mu, bufPool, gor, out>>
vars == <<codecVars, regVars, secVars, cfgVars, logVars>>

-----------------------------------------------------------------------------
(* Bounds of the model. *)

\* most topic records in a request
MaxTopics == 2
\* most partition records in a request, over all its topics
MaxRecords == 2

-----------------------------------------------------------------------------
(* Go values. *)

NoErr == "nil"
ErrInsufficientData == "InsufficientData"
ErrMalformedLength == "MalformedLength"
ErrEncodeValueTooLarge == "EncodeValueTooLarge"

MaxInt16 == 32767
MaxInt32 == 2147483647
MinInt32 == -2147483647 - 1

NilString == [isNil |-> TRUE, val |-> <<>>]
StringPtr(s) == [isNil |-> FALSE, val |-> s]

NilSlice == [isNil |-> TRUE, elems |-> <<>>]
\* make([]T, n): n zero values in a non-nil slice
MakeSlice(n, zero) == [isNil |-> FALSE, elems |-> [i \in 1..n |-> zero]]
\* len(s), 0 for a nil slice
SliceLen(s) == Len(s.elems)
\* append(s, x)
SliceAppend(s, x) == [isNil |-> FALSE, elems |-> Append(s.elems, x)]

ZeroPartition == [Version |-> 0, PartitionIndex |-> 0, LeaderID |-> 0, LeaderEpoch |-> 0]
ZeroTopic == [Version |-> 0, TopicName |-> <<>>, Partitions |-> NilSlice]
ZeroRequest == [Version |-> 0, ClusterID |-> NilString, Topics |-> NilSlice]

-----------------------------------------------------------------------------
(* Big-endian two's complement, sections 4.1 and 4.3 of the specification. *)

Int16Bytes(x) ==
    LET u == IF x < 0 THEN x + 65536 ELSE x
    IN  <<u \div 256, u % 256>>

BytesInt16(b) ==
    LET u == b[1] * 256 + b[2]
    IN  IF u >= 32768 THEN u - 65536 ELSE u

\* The low 31 bits are split into bytes and the sign bit is added to the first
\* byte, so that no intermediate value leaves the 32-bit range.
Int32Bytes(x) ==
    LET y == IF x < 0 THEN (x + MaxInt32) + 1 ELSE x
        s == IF x < 0 THEN 128 ELSE 0
    IN  <<s + (y \div 16777216), (y \div 65536) % 256, (y \div 256) % 256, y % 256>>

BytesInt32(b) ==
    LET neg == b[1] >= 128
        y == (b[1] % 128) * 16777216 + b[2] * 65536 + b[3] * 256 + b[4]
    IN  IF neg THEN (y - MaxInt32) - 1 ELSE y

-----------------------------------------------------------------------------
(* packetEncoder: a growable byte sequence and the log of the puts issued. *)

NewEncoder == [buf |-> <<>>, log |-> <<>>]

PutLogged(e, op, bytes, val, err) ==
    [buf |-> e.buf \o bytes,
     log |-> Append(e.log, [op |-> op, off |-> Len(e.buf), n |-> Len(bytes),
                            val |-> val, err |-> err])]

\* putInt32 has no failure: the buffer grows
PutInt32(e, x) == PutLogged(e, "Int32", Int32Bytes(x), x, NoErr)

PutArrayLength(e, n) ==
    [e |-> PutLogged(e, "ArrayLength", Int32Bytes(n), n, NoErr), err |-> NoErr]

PutString(e, s) ==
    IF Len(s) > MaxInt16
    THEN [e |-> PutLogged(e, "String", <<>>, Len(s), ErrEncodeValueTooLarge),
          err |-> ErrEncodeValueTooLarge]
    ELSE [e |-> PutLogged(e, "String", Int16Bytes(Len(s)) \o s, Len(s), NoErr),
          err |-> NoErr]

PutNullableString(e, p) ==
    IF p.isNil
    THEN [e |-> PutLogged(e, "NullableString", Int16Bytes(-1), -1, NoErr), err |-> NoErr]
    ELSE IF Len(p.val) > MaxInt16
    THEN [e |-> PutLogged(e, "NullableString", <<>>, Len(p.val), ErrEncodeValueTooLarge),
          err |-> ErrEncodeValueTooLarge]
    ELSE [e |-> PutLogged(e, "NullableString", Int16Bytes(Len(p.val)) \o p.val,
                          Len(p.val), NoErr),
          err |-> NoErr]

-----------------------------------------------------------------------------
(* packetDecoder: a view of the frame, a read cursor and the log of reads. *)

NewDecoder(raw) == [raw |-> raw, off |-> 0, log |-> <<>>]

Remaining(d) == Len(d.raw) - d.off

\* a read that consumed n bytes (0 when it failed)
GetLogged(d, op, n, val, err) ==
    [raw |-> d.raw, off |-> d.off + n,
     log |-> Append(d.log, [op |-> op, off |-> d.off, n |-> n, val |-> val, err |-> err])]

Peek(d, at, n) == SubSeq(d.raw, d.off + at + 1, d.off + at + n)

GetInt32(d) ==
    IF Remaining(d) < 4
    THEN [d |-> GetLogged(d, "Int32", 0, 0, ErrInsufficientData), val |-> 0,
          err |-> ErrInsufficientData]
    ELSE LET x == BytesInt32(Peek(d, 0, 4))
         IN  [d |-> GetLogged(d, "Int32", 4, x, NoErr), val |-> x, err |-> NoErr]

\* -1 is the null sentinel and is returned as the count
GetArrayLength(d) ==
    IF Remaining(d) < 4
    THEN [d |-> GetLogged(d, "ArrayLength", 0, 0, ErrInsufficientData), val |-> -1,
          err |-> ErrInsufficientData]
    ELSE LET x == BytesInt32(Peek(d, 0, 4))
         IN  IF x < -1
             THEN [d |-> GetLogged(d, "ArrayLength", 0, x, ErrMalformedLength), val |-> -1,
                   err |-> ErrMalformedLength]
             ELSE [d |-> GetLogged(d, "ArrayLength", 4, x, NoErr), val |-> x, err |-> NoErr]

GetString(d) ==
    IF Remaining(d) < 2
    THEN [d |-> GetLogged(d, "String", 0, 0, ErrInsufficientData), val |-> <<>>,
          err |-> ErrInsufficientData]
    ELSE LET n == BytesInt16(Peek(d, 0, 2))
         IN  IF n < 0
             THEN [d |-> GetLogged(d, "String", 0, n, ErrMalformedLength), val |-> <<>>,
                   err |-> ErrMalformedLength]
             ELSE IF Remaining(d) < 2 + n
             THEN [d |-> GetLogged(d, "String", 0, n, ErrInsufficientData), val |-> <<>>,
                   err |-> ErrInsufficientData]
             ELSE [d |-> GetLogged(d, "String", 2 + n, n, NoErr), val |-> Peek(d, 2, n),
                   err |-> NoErr]

GetNullableString(d) ==
    IF Remaining(d) < 2
    THEN [d |-> GetLogged(d, "NullableString", 0, 0, ErrInsufficientData),
          val |-> NilString, err |-> ErrInsufficientData]
    ELSE LET n == BytesInt16(Peek(d, 0, 2))
         IN  IF n = -1
             THEN [d |-> GetLogged(d, "NullableString", 2, -1, NoErr), val |-> NilString,
                   err |-> NoErr]
             ELSE IF n < -1
             THEN [d |-> GetLogged(d, "NullableString", 0, n, ErrMalformedLength),
                   val |-> NilString, err |-> ErrMalformedLength]
             ELSE IF Remaining(d) < 2 + n
             THEN [d |-> GetLogged(d, "NullableString", 0, n, ErrInsufficientData),
                   val |-> NilString, err |-> ErrInsufficientData]
             ELSE [d |-> GetLogged(d, "NullableString", 2 + n, n, NoErr),
                   val |-> StringPtr(Peek(d, 2, n)), err |-> NoErr]

-----------------------------------------------------------------------------
(* The codec methods.  A method's progress is a record: the receiver as    *)
(* the statements executed so far leave it (obj), the cursor (d or e) and  *)
(* the error (err).  A statement of the form                               *)
(*     if x.F, err = pd.getT(); err != nil { return err }                  *)
(* is a step that does nothing once err is set, which is the early return. *)

DecodeState(obj, d) == [obj |-> obj, d |-> d, err |-> NoErr]

\* x.F, err = <read g>: the field takes the value returned, also on failure
StoreRead(s, f, g) == [obj |-> [s.obj EXCEPT ![f] = g.val], d |-> g.d, err |-> g.err]

ReadInt32(s, f) == IF s.err # NoErr THEN s ELSE StoreRead(s, f, GetInt32(s.d))

ReadString(s, f) == IF s.err # NoErr THEN s ELSE StoreRead(s, f, GetString(s.d))

ReadNullableString(s, f) ==
    IF s.err # NoErr THEN s ELSE StoreRead(s, f, GetNullableString(s.d))

-----------------------------------------------------------------------------
(* PartitionData_BeginQuorumEpochRequest. *)

\* a slip: LeaderEpoch is written before LeaderID
PartitionEncodeSwapped(p, e, version) ==
    [obj |-> [p EXCEPT !.Version = version],
     e |-> PutInt32(PutInt32(PutInt32(e, p.PartitionIndex), p.LeaderEpoch), p.LeaderID),
     err |-> NoErr]

PartitionEncode(p, e, version) ==
    [obj |-> [p EXCEPT !.Version = version],
     e |-> PutInt32(PutInt32(PutInt32(e, p.PartitionIndex), p.LeaderID), p.LeaderEpoch),
     err |-> NoErr]

PartitionDecode(p, d, version) ==
    ReadInt32(
        ReadInt32(
            ReadInt32(DecodeState([p EXCEPT !.Version = version], d), "PartitionIndex"),
            "LeaderID"),
        "LeaderEpoch")

-----------------------------------------------------------------------------
(* TopicData_BeginQuorumEpochRequest. *)

\* err := block.encode(pe, t.Version) on block, a copy of the element: what
\* encode assigns to block is dropped with it
EncodeBlockOfTopic(b) == [e |-> b.e, err |-> b.err]

\* for _, block := range t.Partitions { ... }, from element i on
RECURSIVE EncodePartitions(_, _, _, _)
EncodePartitions(t, s, i, n) ==
    IF s.err # NoErr \/ i > n THEN s
    ELSE EncodePartitions(
             t, EncodeBlockOfTopic(PartitionEncode(t.Partitions.elems[i], s.e, t.Version)),
             i + 1, n)

PutPartitionCount(t, s) ==
    IF s.err # NoErr THEN s ELSE PutArrayLength(s.e, SliceLen(t.Partitions))

TopicEncodeAt(t, e) ==
    EncodePartitions(t, PutPartitionCount(t, PutString(e, t.TopicName)),
                     1, SliceLen(t.Partitions))

TopicEncodeResult(t, s) == [obj |-> t, e |-> s.e, err |-> s.err]

TopicEncode(t, e, version) ==
    TopicEncodeResult([t EXCEPT !.Version = version],
                      TopicEncodeAt([t EXCEPT !.Version = version], e))

\* for i := 0; i < numPartitions; i++ { var block; block.decode(pd, t.Version);
\* t.Partitions[i] = block }, from element i on
RECURSIVE DecodePartitions(_, _, _)
RECURSIVE StorePartition(_, _, _, _)
DecodePartitions(s, i, n) ==
    IF i > n THEN s
    ELSE StorePartition(s, i, n, PartitionDecode(ZeroPartition, s.d, s.obj.Version))

\* a slip: the error of block.decode is not returned and the loop goes on
StorePartitionContinue(s, i, n, b) ==
    DecodePartitions(
        DecodeState([s.obj EXCEPT !.Partitions.elems[i] = b.obj], b.d), i + 1, n)

StorePartition(s, i, n, b) ==
    IF b.err # NoErr THEN [obj |-> s.obj, d |-> b.d, err |-> b.err]
    ELSE DecodePartitions(
             DecodeState([s.obj EXCEPT !.Partitions.elems[i] = b.obj], b.d), i + 1, n)

\* numPartitions, err = pd.getArrayLength() and what follows it
MakePartitionsOf(s, g) ==
    IF g.err # NoErr THEN [obj |-> s.obj, d |-> g.d, err |-> g.err]
    ELSE IF g.val > 0
    THEN DecodePartitions(
             DecodeState([s.obj EXCEPT !.Partitions = MakeSlice(g.val, ZeroPartition)], g.d),
             1, g.val)
    ELSE DecodeState(s.obj, g.d)

ReadPartitions(s) == IF s.err # NoErr THEN s ELSE MakePartitionsOf(s, GetArrayLength(s.d))

\* a slip: t.Version = version is missing
TopicDecodeStale(t, d, version) ==
    ReadPartitions(ReadString(DecodeState(t, d), "TopicName"))

TopicDecode(t, d, version) ==
    ReadPartitions(ReadString(DecodeState([t EXCEPT !.Version = version], d), "TopicName"))

-----------------------------------------------------------------------------
(* BeginQuorumEpochRequest. *)

\* err := block.encode(pe, r.Version) on block, a copy of the element
EncodeBlockOfRequest(b) == [e |-> b.e, err |-> b.err]

\* for _, block := range r.Topics { ... }, from element i on
RECURSIVE EncodeTopics(_, _, _, _)
EncodeTopics(r, s, i, n) ==
    IF s.err # NoErr \/ i > n THEN s
    ELSE EncodeTopics(
             r, EncodeBlockOfRequest(TopicEncode(r.Topics.elems[i], s.e, r.Version)),
             i + 1, n)

PutTopicCount(r, s) ==
    IF s.err # NoErr THEN s ELSE PutArrayLength(s.e, SliceLen(r.Topics))

ReqEncodeAt(r, e) ==
    EncodeTopics(r, PutTopicCount(r, PutNullableString(e, r.ClusterID)),
                 1, SliceLen(r.Topics))

ReqEncodeResult(r, s) == [obj |-> r, e |-> s.e, err |-> s.err]

\* encode takes no version: the request is encoded at the Version it holds
ReqEncode(r, e) == ReqEncodeResult(r, ReqEncodeAt(r, e))

RECURSIVE DecodeTopics(_, _, _)
RECURSIVE StoreTopic(_, _, _, _)
DecodeTopics(s, i, n) ==
    IF i > n THEN s
    ELSE StoreTopic(s, i, n, TopicDecode(ZeroTopic, s.d, s.obj.Version))

\* a slip: return nil where block.decode failed
StoreTopicSwallow(s, i, n, b) ==
    IF b.err # NoErr THEN DecodeState(s.obj, b.d)
    ELSE DecodeTopics(DecodeState([s.obj EXCEPT !.Topics.elems[i] = b.obj], b.d), i + 1, n)

StoreTopic(s, i, n, b) ==
    IF b.err # NoErr THEN [obj |-> s.obj, d |-> b.d, err |-> b.err]
    ELSE DecodeTopics(DecodeState([s.obj EXCEPT !.Topics.elems[i] = b.obj], b.d), i + 1, n)

\* numTopics, err = pd.getArrayLength() and what follows it
MakeTopicsOf(s, g) ==
    IF g.err # NoErr THEN [obj |-> s.obj, d |-> g.d, err |-> g.err]
    ELSE IF g.val > 0
    THEN DecodeTopics(
             DecodeState([s.obj EXCEPT !.Topics = MakeSlice(g.val, ZeroTopic)], g.d),
             1, g.val)
    ELSE DecodeState(s.obj, g.d)

ReadTopics(s) == IF s.err # NoErr THEN s ELSE MakeTopicsOf(s, GetArrayLength(s.d))

ReqDecode(r, d, version) ==
    ReadTopics(ReadNullableString(DecodeState([r EXCEPT !.Version = version], d), "ClusterID"))

GetKey(r) == 53

GetVersion(r) == r.Version

GetHeaderVersion(r) == 1

\* a slip: every version from 0 on is taken as valid
IsValidVersionFromZero(r) == r.Version >= 0

IsValidVersion(r) == r.Version = 0

-----------------------------------------------------------------------------
(* The codec scenario: a request is built field by field, encoded, and the *)
(* bytes (whole, cut short, or with the count of an empty list replaced by *)
(* the null sentinel) are decoded into a new request at the same version.  *)

Versions == {0, 1}

ClusterIDs == {NilString, StringPtr(<<>>), StringPtr(<<99>>)}

\* a string one byte longer than an int16 length can express
LongName == [i \in 1..(MaxInt16 + 1) |-> 120]

TopicInputs ==
    {[ZeroTopic EXCEPT !.TopicName = <<111, 114>>],
     [ZeroTopic EXCEPT !.Version = 1]}

PartitionInputs ==
    {[Version |-> 0, PartitionIndex |-> 3, LeaderID |-> 7, LeaderEpoch |-> 42],
     [Version |-> 1, PartitionIndex |-> -1, LeaderID |-> MinInt32, LeaderEpoch |-> MaxInt32]}

\* Requests holding a string too long to encode: as the cluster id, as the
\* name of the only topic, and as the name of a topic that follows an
\* encodable one.  They are encoded as they are, never built further.
OversizedRequests ==
    LET p == [ZeroPartition EXCEPT !.PartitionIndex = 3]
        good == [ZeroTopic EXCEPT !.TopicName = <<111, 114>>,
                                  !.Partitions = SliceAppend(NilSlice, p)]
        long == [good EXCEPT !.TopicName = LongName]
    IN  {[ZeroRequest EXCEPT !.ClusterID = StringPtr(LongName),
                             !.Topics = SliceAppend(NilSlice, good)],
         [ZeroRequest EXCEPT !.Topics = SliceAppend(NilSlice, long)],
         [ZeroRequest EXCEPT !.Topics = SliceAppend(SliceAppend(NilSlice, good), long)]}

RECURSIVE SumLen(_, _)
SumLen(topics, i) ==
    IF i > Len(topics) THEN 0
    ELSE SliceLen(topics[i].Partitions) + SumLen(topics, i + 1)

\* the partition records of a request, over all its topics
Records(r) == SumLen(r.Topics.elems, 1)

NotEncoded == [obj |-> ZeroRequest, e |-> NewEncoder, err |-> NoErr]

NotDecoded == [obj |-> ZeroRequest, d |-> NewDecoder(<<>>), err |-> NoErr]

CodecIdle ==
    /\ \/ pc = "build" /\ msg = ZeroRequest
       \/ pc = "given" /\ msg \in OversizedRequests
    /\ enc = NotEncoded
    /\ frameKind = "none"
    /\ dec = NotDecoded

Built(m) ==
    /\ pc = "build"
    /\ msg' = m
    /\ UNCHANGED <<pc, enc, frameKind, dec>>
    /\ UNCHANGED <<regVars, secVars, cfgVars, logVars>>

SetVersion(v) == Built([msg EXCEPT !.Version = v])

SetClusterID(c) == Built([msg EXCEPT !.ClusterID = c])

\* Topics: []TopicData_BeginQuorumEpochRequest{}
MakeTopics ==
    /\ msg.Topics.isNil
    /\ Built([msg EXCEPT !.Topics = MakeSlice(0, ZeroTopic)])

AppendTopic(t) ==
    /\ SliceLen(msg.Topics) < MaxTopics
    /\ Built([msg EXCEPT !.Topics = SliceAppend(msg.Topics, t)])

\* Partitions: []PartitionData_BeginQuorumEpochRequest{} in the last topic
MakePartitions ==
    /\ SliceLen(msg.Topics) > 0
    /\ msg.Topics.elems[SliceLen(msg.Topics)].Partitions.isNil
    /\ Built([msg EXCEPT !.Topics.elems[SliceLen(msg.Topics)].Partitions =
                             MakeSlice(0, ZeroPartition)])

AppendPartition(p) ==
    /\ SliceLen(msg.Topics) > 0
    /\ Records(msg) < MaxRecords
    /\ Built([msg EXCEPT !.Topics.elems[SliceLen(msg.Topics)].Partitions =
                             SliceAppend(msg.Topics.elems[SliceLen(msg.Topics)].Partitions, p)])

\* msg stays the request as it was before the call; enc.obj is the request after it
Encode ==
    /\ pc \in {"build", "given"}
    /\ enc' = ReqEncode(msg, NewEncoder)
    /\ pc' = "encoded"
    /\ UNCHANGED <<msg, frameKind, dec>>
    /\ UNCHANGED <<regVars, secVars, cfgVars, logVars>>

\* decode of the bytes f into a new request, at the version they were encoded at
Receive(f, kind) ==
    /\ pc = "encoded"
    /\ enc.err = NoErr
    /\ dec' = ReqDecode(ZeroRequest, NewDecoder(f), msg.Version)
    /\ frameKind' = kind
    /\ pc' = "decoded"
    /\ UNCHANGED <<msg, enc>>
    /\ UNCHANGED <<regVars, secVars, cfgVars, logVars>>

DecodeWhole == Receive(enc.e.buf, "whole")

DecodePrefix(n) == Receive(SubSeq(enc.e.buf, 1, n), "prefix")

\* the frame with the array count that put k wrote replaced by -1
NullCount(k) ==
    [i \in 1..Len(enc.e.buf) |->
        IF i > enc.e.log[k].off /\ i <= enc.e.log[k].off + 4 THEN 255 ELSE enc.e.buf[i]]

\* The frame of a peer that sends list k as absent: the count of an empty
\* list becomes the null sentinel, and no element follows it.
DecodeNullCount(k) ==
    /\ pc = "encoded"
    /\ enc.e.log[k].op = "ArrayLength"
    /\ enc.e.log[k].val = 0
    /\ Receive(NullCount(k), "nullcount")

CodecNext ==
    \/ \E v \in Versions : SetVersion(v)
    \/ \E c \in ClusterIDs : SetClusterID(c)
    \/ MakeTopics
    \/ \E t \in TopicInputs : AppendTopic(t)
    \/ MakePartitions
    \/ \E p \in PartitionInputs : AppendPartition(p)
    \/ Encode
    \/ DecodeWhole
    \/ \E n \in 0..(Len(enc.e.buf) - 1) : DecodePrefix(n)
    \/ \E k \in 1..Len(enc.e.log) : DecodeNullCount(k)

\* the registry and security-protocol scenarios are not running
RegUnused ==
    /\ regPc = "unused"
    /\ regReq = ZeroRequest
    /\ regOut = [key |-> 0, header |-> 0, valid |-> FALSE]

SecUnused ==
    /\ secPc = "unused"
    /\ secIn = <<>>
    /\ secOut = [protocol |-> 4, ok |-> FALSE]

\* config.Listener{} and config.Broker{}
ZeroListener == [Host |-> <<>>, Port |-> 0, SecurityProtocol |-> 0, ListenerName |-> <<>>]
ZeroBroker ==
    [BrokerID |-> 0, Rack |-> NilString, Listeners |-> NilSlice,
     AdvertisedListeners |-> NilSlice]

\* an error value is its format and the argument formatted into it
NilError == [msg |-> "nil", arg |-> <<>>]
Errorf(format, a) == [msg |-> format, arg |-> a]

\* the settings that the broker configuration reads
Settings ==
    {"listeners", "advertised.listeners", "listener.security.protocol.map", "broker.id"}

\* the broker configuration and logger scenarios are not running
CfgUnused ==
    /\ cfgPc = "unused"
    /\ env = [k \in Settings |-> [set |-> FALSE, val |-> <<>>]]
    /\ cfgArg = <<>>
    /\ broker = ZeroBroker
    /\ cfgOut = [broker |-> ZeroBroker, listener |-> ZeroListener, err |-> NilError]

LogUnused ==
    /\ handlers = <<>>
    /\ mu = <<>>
    /\ bufPool = [free |-> {}, made |-> 0, cap |-> <<>>]
    /\ gor = <<>>
    /\ out = [writes |-> <<>>, inside |-> {}]

Init == CodecIdle /\ RegUnused /\ SecUnused /\ CfgUnused /\ LogUnused

Next == CodecNext

Spec == Init /\ [][Next]_vars

-----------------------------------------------------------------------------
(* The registry scenario: a request takes its Version, set directly or by  *)
(* a decode, and its registry methods are called.                          *)

Int16 == (0 - 32768)..32767

\* the bytes of a request with a cluster id, one topic and one partition
RegFrame ==
    ReqEncode([ZeroRequest EXCEPT
                   !.ClusterID = StringPtr(<<99>>),
                   !.Topics = SliceAppend(NilSlice,
                       [ZeroTopic EXCEPT !.Partitions = SliceAppend(NilSlice, ZeroPartition)])],
              NewEncoder).e.buf

CodecUnused ==
    /\ pc = "unused"
    /\ msg = ZeroRequest
    /\ enc = NotEncoded
    /\ frameKind = "none"
    /\ dec = NotDecoded

RegInit ==
    /\ regPc = "new"
    /\ regReq = ZeroRequest
    /\ regOut = [key |-> 0, header |-> 0, valid |-> FALSE]
    /\ CodecUnused
    /\ SecUnused
    /\ CfgUnused
    /\ LogUnused

\* r.Version = v
RegSetVersion(v) ==
    /\ regPc = "new"
    /\ regReq' = [regReq EXCEPT !.Version = v]
    /\ regPc' = "set"
    /\ UNCHANGED <<regOut, codecVars, secVars, cfgVars, logVars>>

\* r.decode(pd, v)
RegDecode(v) ==
    /\ regPc = "new"
    /\ regReq' = ReqDecode(regReq, NewDecoder(RegFrame), v).obj
    /\ regPc' = "set"
    /\ UNCHANGED <<regOut, codecVars, secVars, cfgVars, logVars>>

RegQuery ==
    /\ regPc = "set"
    /\ regOut' = [key |-> GetKey(regReq), header |-> GetHeaderVersion(regReq),
                  valid |-> IsValidVersion(regReq)]
    /\ regPc' = "queried"
    /\ UNCHANGED <<regReq, codecVars, secVars, cfgVars, logVars>>

RegNext ==
    \/ regPc = "new" /\ \E v \in Int16 : RegSetVersion(v)
    \/ regPc = "new" /\ \E v \in Int16 : RegDecode(v)
    \/ RegQuery

SpecRegistry == RegInit /\ [][RegNext]_vars

-----------------------------------------------------------------------------
(* ParseSecurityProtocol.  A string is its sequence of code points.        *)

PLAINTEXT == 0
SSL == 1
SASL_PLAINTEXT == 2
SASL_SSL == 3
UNDEFINED == 4

\* "PLAINTEXT", "SSL", "SASL_PLAINTEXT", "SASL_SSL"
NamePLAINTEXT == <<80, 76, 65, 73, 78, 84, 69, 88, 84>>
NameSSL == <<83, 83, 76>>
NameSASL_PLAINTEXT == <<83, 65, 83, 76, 95>> \o NamePLAINTEXT
NameSASL_SSL == <<83, 65, 83, 76, 95>> \o NameSSL

\* unicode.ToUpper on the code points of the model: a to z, and the two
\* letters outside ASCII whose upper case is an ASCII letter, U+017F (long s)
\* with upper case S and U+0131 (dotless i) with upper case I
ToUpperRune(c) ==
    IF c >= 97 /\ c <= 122 THEN c - 32
    ELSE IF c = 383 THEN 83
    ELSE IF c = 305 THEN 73
    ELSE c

\* strings.ToUpper
ToUpper(s) == [i \in 1..Len(s) |-> ToUpperRune(s[i])]

SwitchOnName(u) ==
    IF u = NamePLAINTEXT THEN [protocol |-> PLAINTEXT, ok |-> TRUE]
    ELSE IF u = NameSSL THEN [protocol |-> SSL, ok |-> TRUE]
    ELSE IF u = NameSASL_PLAINTEXT THEN [protocol |-> SASL_PLAINTEXT, ok |-> TRUE]
    ELSE IF u = NameSASL_SSL THEN [protocol |-> SASL_SSL, ok |-> TRUE]
    ELSE [protocol |-> UNDEFINED, ok |-> FALSE]

\* a slip: the switch is on p, not on strings.ToUpper(p)
ParseSecurityProtocolExact(p) == SwitchOnName(p)

ParseSecurityProtocol(p) == SwitchOnName(ToUpper(p))

\* The letters that are case forms of the upper-case letter c.
CaseForms(c) ==
    IF c >= 65 /\ c <= 90
    THEN {c, c + 32} \cup (IF c = 83 THEN {383} ELSE {}) \cup (IF c = 73 THEN {305} ELSE {})
    ELSE {c}

\* every spelling of the first k letters of name in some mix of cases
RECURSIVE Spellings(_, _)
Spellings(name, k) ==
    IF k = 0 THEN {<<>>}
    ELSE {Append(s, c) : s \in Spellings(name, k - 1), c \in CaseForms(name[k])}

ProtocolNames ==
    {[text |-> NamePLAINTEXT, value |-> PLAINTEXT],
     [text |-> NameSSL, value |-> SSL],
     [text |-> NameSASL_PLAINTEXT, value |-> SASL_PLAINTEXT],
     [text |-> NameSASL_SSL, value |-> SASL_SSL]}

\* strings near a name that are no spelling of one: a letter missing, a space
\* before or after, a hyphen for the underscore, a look-alike letter
NearMisses(name) ==
    {SubSeq(name, 1, Len(name) - 1), SubSeq(name, 2, Len(name)),
     Append(name, 32), <<32>> \o name, name \o name,
     [i \in 1..Len(name) |-> IF name[i] = 95 THEN 45 ELSE name[i] + 32],
     [i \in 1..Len(name) |-> IF name[i] = 83 THEN 36 ELSE name[i]],
     [i \in 1..Len(name) |-> IF name[i] = 76 THEN 49 ELSE name[i]]}

\* "", "bogus", "TLS", "UNDEFINED", "SASL", "PLAIN", "TEXT", "4"
OtherStrings ==
    {<<>>, <<98, 111, 103, 117, 115>>, <<84, 76, 83>>,
     <<85, 78, 68, 69, 70, 73, 78, 69, 68>>, <<83, 65, 83, 76>>,
     <<80, 76, 65, 73, 78>>, <<84, 69, 88, 84>>, <<52>>}

SecInputs ==
    UNION {Spellings(n.text, Len(n.text)) : n \in ProtocolNames}
    \cup UNION {NearMisses(n.text) : n \in ProtocolNames}
    \cup OtherStrings

SecInit ==
    /\ secPc = "input"
    /\ secIn \in SecInputs
    /\ secOut = [protocol |-> UNDEFINED, ok |-> FALSE]
    /\ CodecUnused
    /\ RegUnused
    /\ CfgUnused
    /\ LogUnused

SecParse ==
    /\ secPc = "input"
    /\ secOut' = ParseSecurityProtocol(secIn)
    /\ secPc' = "parsed"
    /\ UNCHANGED <<secIn, codecVars, regVars, cfgVars, logVars>>

SecNext == SecParse

SpecSecurity == SecInit /\ [][SecNext]_vars

-----------------------------------------------------------------------------
(* What the claims speak of. *)

TopicsOf(r) == {r.Topics.elems[i] : i \in 1..SliceLen(r.Topics)}

PartitionsOf(r) ==
    UNION {{t.Partitions.elems[j] : j \in 1..SliceLen(t.Partitions)} : t \in TopicsOf(r)}

\* every record of r, at each level, holds Version v
OneVersion(r, v) ==
    /\ r.Version = v
    /\ \A t \in TopicsOf(r) : t.Version = v
    /\ \A p \in PartitionsOf(r) : p.Version = v

PresentEmpty(s) == ~s.isNil /\ SliceLen(s) = 0

Encoded == pc \in {"encoded", "decoded"}

\* all entries of a log but the last succeeded, and err is the last entry's
StopsAtFirstFailure(log, err) ==
    /\ \A i \in 1..(Len(log) - 1) : log[i].err = NoErr
    /\ err = (IF log = <<>> THEN NoErr ELSE log[Len(log)].err)

\* the entries of a log follow each other without gap from offset 0 to total
RECURSIVE Contiguous(_, _, _)
Contiguous(log, i, at) ==
    IF i > Len(log) THEN TRUE
    ELSE log[i].off = at /\ Contiguous(log, i + 1, at + log[i].n)

RECURSIVE TotalBytes(_, _)
TotalBytes(log, i) == IF i > Len(log) THEN 0 ELSE log[i].n + TotalBytes(log, i + 1)

\* The layout of section 6 for a request, as the operations and their values.
LayoutOfPartition(p) ==
    <<[op |-> "Int32", val |-> p.PartitionIndex],
      [op |-> "Int32", val |-> p.LeaderID],
      [op |-> "Int32", val |-> p.LeaderEpoch]>>

RECURSIVE LayoutOfPartitions(_, _)
LayoutOfPartitions(ps, j) ==
    IF j > Len(ps) THEN <<>>
    ELSE LayoutOfPartition(ps[j]) \o LayoutOfPartitions(ps, j + 1)

RECURSIVE LayoutOfTopics(_, _)
LayoutOfTopics(ts, i) ==
    IF i > Len(ts) THEN <<>>
    ELSE <<[op |-> "String", val |-> Len(ts[i].TopicName)],
           [op |-> "ArrayLength", val |-> Len(ts[i].Partitions.elems)]>>
         \o LayoutOfPartitions(ts[i].Partitions.elems, 1)
         \o LayoutOfTopics(ts, i + 1)

Layout(r) ==
    <<[op |-> "NullableString",
       val |-> IF r.ClusterID.isNil THEN -1 ELSE Len(r.ClusterID.val)],
      [op |-> "ArrayLength", val |-> Len(r.Topics.elems)]>>
    \o LayoutOfTopics(r.Topics.elems, 1)

Issued(log) == [i \in 1..Len(log) |-> [op |-> log[i].op, val |-> log[i].val]]

\* the index, among the reads of a successful decode into r, of the count of
\* the partition list of topic j
RECURSIVE PartitionCountRead(_, _)
PartitionCountRead(r, j) ==
    IF j = 1 THEN 4
    ELSE PartitionCountRead(r, j - 1) + 2 + 3 * SliceLen(r.Topics.elems[j - 1].Partitions)

-----------------------------------------------------------------------------
(* The claims about the codec, under Spec. *)

\* C1: decoding at version 0 the whole bytes that encode produced for a request
\* at version 0 succeeds and yields a request equal to the encoded one in every
\* field of every level.
RoundTrip ==
    (pc = "decoded" /\ frameKind = "whole" /\ msg.Version = 0)
        => (dec.err = NoErr /\ dec.obj = msg)

\* C2: a list that is present with no element is decoded as present with no
\* element, the topic list and each topic's partition list alike, and a list
\* whose count is the null sentinel is never decoded as a present empty list.
AbsentEmptyDistinct ==
    (pc = "decoded" /\ dec.err = NoErr)
        => /\ frameKind = "whole" =>
                /\ PresentEmpty(msg.Topics) => PresentEmpty(dec.obj.Topics)
                /\ \A i \in 1..SliceLen(msg.Topics) :
                       PresentEmpty(msg.Topics.elems[i].Partitions)
                           => PresentEmpty(dec.obj.Topics.elems[i].Partitions)
           /\ frameKind = "nullcount" =>
                /\ dec.d.log[2].val = -1 => ~PresentEmpty(dec.obj.Topics)
                /\ \A j \in 1..SliceLen(dec.obj.Topics) :
                       dec.d.log[PartitionCountRead(dec.obj, j)].val = -1
                           => ~PresentEmpty(dec.obj.Topics.elems[j].Partitions)

\* C3: after a decode at version v that succeeds, the request and every topic
\* and partition record it holds report Version v.
VersionPropagation ==
    (pc = "decoded" /\ dec.err = NoErr) => OneVersion(dec.obj, msg.Version)

VersionPropagationSeen ==
    /\ pc = "decoded"
    /\ dec.err = NoErr
    /\ msg.Version = 1
    /\ SliceLen(dec.obj.Topics) = 2
    /\ Cardinality(PartitionsOf(dec.obj)) = 2

\* C4: after an encode at version v that succeeds, the request and every topic
\* and partition record stored in its lists hold Version v, whatever they held
\* before.
VersionOnEncode ==
    (Encoded /\ enc.err = NoErr) => OneVersion(enc.obj, msg.Version)

\* C5: decode of a proper prefix of the bytes of a valid encoding returns
\* InsufficientData, and no read goes past the end of the prefix.
TruncatedFails ==
    (pc = "decoded" /\ frameKind = "prefix")
        => /\ dec.err = ErrInsufficientData
           /\ Len(dec.d.raw) < Len(enc.e.buf)
           /\ \A i \in 1..Len(dec.d.log) :
                  dec.d.log[i].off + dec.d.log[i].n <= Len(dec.d.raw)

TruncatedSeen ==
    /\ pc = "decoded"
    /\ frameKind = "prefix"
    /\ dec.err = ErrInsufficientData
    /\ Len(dec.d.raw) = Len(enc.e.buf) - 1
    /\ Len(dec.d.log) > 8
    /\ dec.d.log[Len(dec.d.log)].op = "Int32"

\* C6: when decode returns an error the request it was called on holds no
\* field filled from the frame: no cluster id and no topic list.
NoPartialObject ==
    (pc = "decoded" /\ dec.err # NoErr)
        => (dec.obj.ClusterID = NilString /\ dec.obj.Topics = NilSlice)

\* C7: in decode the first read that fails is the last read issued and its
\* error is what decode returns; in encode the first put that fails is the
\* last put issued and its error is what encode returns.
FirstFailure ==
    /\ pc = "decoded" => StopsAtFirstFailure(dec.d.log, dec.err)
    /\ Encoded => StopsAtFirstFailure(enc.e.log, enc.err)

\* a read of a partition field of the second topic fails
FirstFailureSeen ==
    /\ pc = "decoded"
    /\ dec.err # NoErr
    /\ SliceLen(dec.obj.Topics) = 2
    /\ dec.obj.Topics.elems[1].Partitions # NilSlice
    /\ dec.d.log[Len(dec.d.log)].op = "Int32"
    /\ dec.d.log[Len(dec.d.log) - 1].op = "Int32"

\* a put of the name of the second topic fails, after the puts of the first
FirstFailureOnEncodeSeen ==
    /\ pc = "encoded"
    /\ enc.err = ErrEncodeValueTooLarge
    /\ Len(enc.e.log) = 8

\* C8: encode issues the writes of the version 0 layout and nothing else, in
\* list order, and decode of those bytes issues the same operations at the
\* same offsets with the same lengths and values.
WireLayout ==
    /\ (Encoded /\ enc.err = NoErr /\ msg.Version = 0)
           => /\ Issued(enc.e.log) = Layout(msg)
              /\ Contiguous(enc.e.log, 1, 0)
              /\ TotalBytes(enc.e.log, 1) = Len(enc.e.buf)
    /\ (pc = "decoded" /\ frameKind = "whole" /\ msg.Version = 0)
           => dec.d.log = enc.e.log

WireLayoutSeen ==
    /\ pc = "decoded"
    /\ frameKind = "whole"
    /\ msg.Version = 0
    /\ SliceLen(msg.Topics) = 2
    /\ SliceLen(msg.Topics.elems[1].Partitions) = 2
    /\ msg.Topics.elems[1].Partitions.elems[1] # msg.Topics.elems[1].Partitions.elems[2]
    /\ Len(dec.d.log) = 12

-----------------------------------------------------------------------------
(* The claim about the registry methods, under SpecRegistry. *)

\* C9: whatever int16 value Version holds, set directly or by decode,
\* IsValidVersion answers true exactly when Version is 0, GetKey answers 53
\* and GetHeaderVersion answers 1.
RegistryLaw ==
    regPc = "queried"
        => /\ regOut.valid = (regReq.Version = 0)
           /\ regOut.key = 53
           /\ regOut.header = 1

\* the methods were called on a request decoded at the lowest int16 version
RegistryLawSeen ==
    /\ regPc = "queried"
    /\ regReq.Version = 0 - 32768
    /\ ~regReq.ClusterID.isNil
    /\ ~regOut.valid

-----------------------------------------------------------------------------
(* The claim about ParseSecurityProtocol, under SpecSecurity. *)

\* s spells name letter by letter, each letter in any of its case forms
IsSpelling(s, name) ==
    /\ Len(s) = Len(name)
    /\ \A i \in 1..Len(name) : s[i] \in CaseForms(name[i])

\* C10: a string that spells one of the four protocol names in any mix of
\* upper and lower case yields that name's value and true, every other string
\* yields UNDEFINED and false, and UNDEFINED never comes with true nor another
\* value with false.  The lower-case forms of a letter are those of Unicode:
\* U+017F counts as a lower-case s and U+0131 as a lower-case i.
SecurityParse ==
    secPc = "parsed"
        => /\ \A n \in ProtocolNames :
                  IsSpelling(secIn, n.text) => secOut = [protocol |-> n.value, ok |-> TRUE]
           /\ (\A n \in ProtocolNames : ~IsSpelling(secIn, n.text))
                  => secOut = [protocol |-> UNDEFINED, ok |-> FALSE]
           /\ secOut.ok = (secOut.protocol # UNDEFINED)

\* "sasl_PlainText" parsed
SecurityParseSeen ==
    /\ secPc = "parsed"
    /\ secIn = <<115, 97, 115, 108, 95, 80, 108, 97, 105, 110, 84, 101, 120, 116>>
    /\ secOut = [protocol |-> SASL_PLAINTEXT, ok |-> TRUE]

\* "bogus" parsed
SecurityParseBogusSeen ==
    /\ secPc = "parsed"
    /\ secIn = <<98, 111, 103, 117, 115>>
    /\ secOut = [protocol |-> UNDEFINED, ok |-> FALSE]

-----------------------------------------------------------------------------
(* Strings of the broker configuration, as sequences of code points; a     *)
(* byte that is part of no UTF-8 sequence is 1114112 plus the byte.        *)

\* strings.Split(s, sep) for a separator of one character
RECURSIVE Split(_, _)
Split(s, sep) ==
    IF \A i \in 1..Len(s) : s[i] # sep THEN <<s>>
    ELSE LET k == CHOOSE i \in 1..Len(s) : s[i] = sep /\ \A j \in 1..(i - 1) : s[j] # sep
         IN  <<SubSeq(s, 1, k - 1)>> \o Split(SubSeq(s, k + 1, Len(s)), sep)

\* strings.ReplaceAll(s, old, "") for an old of one character
ReplaceAll(s, old) == SelectSeq(s, LAMBDA c : c # old)

\* strings.EqualFold: the strings are compared rune by rune, and two runes
\* are equal when unicode.SimpleFold leads from one to the other, that is,
\* when they have the same simple case folding.  FoldRanges lists the runes
\* that are not the least of their folding class, as <<first, last, step,
\* distance to the least rune of the class>> (Unicode 15: 1454 runes; "a" to
\* "z" lie 32 above "A" to "Z", U+017F 300 above "S", U+212A 8415 above
\* "K").  A byte that is part of no UTF-8 sequence is read as U+FFFD.
EqualFold(s, t) ==
    LET FoldRanges ==
            {<<97, 122, 1, 32>>, <<224, 246, 1, 32>>, <<248, 254, 1, 32>>,
             <<257, 303, 2, 1>>, <<307, 311, 2, 1>>, <<314, 328, 2, 1>>,
             <<331, 375, 2, 1>>, <<376, 376, 1, 121>>, <<378, 382, 2, 1>>,
             <<383, 383, 1, 300>>, <<387, 389, 2, 1>>, <<392, 392, 1, 1>>,
             <<396, 396, 1, 1>>, <<402, 402, 1, 1>>, <<409, 409, 1, 1>>,
             <<417, 421, 2, 1>>, <<424, 424, 1, 1>>, <<429, 429, 1, 1>>,
             <<432, 432, 1, 1>>, <<436, 438, 2, 1>>, <<441, 441, 1, 1>>,
             <<445, 445, 1, 1>>, <<453, 453, 1, 1>>, <<454, 454, 1, 2>>,
             <<456, 456, 1, 1>>, <<457, 457, 1, 2>>, <<459, 459, 1, 1>>,
             <<460, 460, 1, 2>>, <<462, 476, 2, 1>>, <<477, 477, 1, 79>>,
             <<479, 495, 2, 1>>, <<498, 498, 1, 1>>, <<499, 499, 1, 2>>,
             <<501, 501, 1, 1>>, <<502, 502, 1, 97>>, <<503, 503, 1, 56>>,
             <<505, 543, 2, 1>>, <<544, 544, 1, 130>>, <<547, 563, 2, 1>>,
             <<572, 572, 1, 1>>, <<573, 573, 1, 163>>, <<578, 578, 1, 1>>,
             <<579, 579, 1, 195>>, <<583, 591, 2, 1>>, <<595, 595, 1, 210>>,
             <<596, 596, 1, 206>>, <<598, 599, 1, 205>>, <<601, 601, 1, 202>>,
             <<603, 603, 1, 203>>, <<608, 608, 1, 205>>, <<611, 611, 1, 207>>,
             <<616, 616, 1, 209>>, <<617, 617, 1, 211>>, <<623, 623, 1, 211>>,
             <<626, 626, 1, 213>>, <<629, 629, 1, 214>>, <<640, 640, 1, 218>>,
             <<643, 643, 1, 218>>, <<648, 648, 1, 218>>, <<649, 649, 1, 69>>,
             <<650, 651, 1, 217>>, <<652, 652, 1, 71>>, <<658, 658, 1, 219>>,
             <<881, 883, 2, 1>>, <<887, 887, 1, 1>>, <<921, 921, 1, 84>>,
             <<924, 924, 1, 743>>, <<940, 940, 1, 38>>, <<941, 943, 1, 37>>,
             <<945, 952, 1, 32>>, <<953, 953, 1, 116>>, <<954, 955, 1, 32>>,
             <<956, 956, 1, 775>>, <<957, 971, 2, 32>>, <<958, 961, 1, 32>>,
             <<962, 962, 1, 31>>, <<963, 971, 1, 32>>, <<972, 972, 1, 64>>,
             <<973, 974, 1, 63>>, <<976, 976, 1, 62>>, <<977, 977, 1, 57>>,
             <<981, 981, 1, 47>>, <<982, 982, 1, 54>>, <<983, 983, 1, 8>>,
             <<985, 1007, 2, 1>>, <<1008, 1008, 1, 86>>, <<1009, 1009, 1, 80>>,
             <<1011, 1011, 1, 116>>, <<1012, 1012, 1, 92>>, <<1013, 1013, 1, 96>>,
             <<1016, 1016, 1, 1>>, <<1017, 1017, 1, 7>>, <<1019, 1019, 1, 1>>,
             <<1021, 1023, 1, 130>>, <<1072, 1103, 1, 32>>, <<1104, 1119, 1, 80>>,
             <<1121, 1153, 2, 1>>, <<1163, 1215, 2, 1>>, <<1218, 1230, 2, 1>>,
             <<1231, 1231, 1, 15>>, <<1233, 1327, 2, 1>>, <<1377, 1414, 1, 48>>,
             <<5112, 5117, 1, 8>>, <<7296, 7296, 1, 6254>>, <<7297, 7297, 1, 6253>>,
             <<7298, 7298, 1, 6244>>, <<7299, 7300, 1, 6242>>, <<7301, 7301, 1, 6243>>,
             <<7302, 7302, 1, 6236>>, <<7303, 7303, 1, 6181>>, <<7312, 7354, 1, 3008>>,
             <<7357, 7359, 1, 3008>>, <<7681, 7829, 2, 1>>, <<7835, 7835, 1, 59>>,
             <<7838, 7838, 1, 7615>>, <<7841, 7935, 2, 1>>, <<7944, 7951, 1, 8>>,
             <<7960, 7965, 1, 8>>, <<7976, 7983, 1, 8>>, <<7992, 7999, 1, 8>>,
             <<8008, 8013, 1, 8>>, <<8025, 8031, 2, 8>>, <<8040, 8047, 1, 8>>,
             <<8072, 8079, 1, 8>>, <<8088, 8095, 1, 8>>, <<8104, 8111, 1, 8>>,
             <<8120, 8121, 1, 8>>, <<8122, 8123, 1, 74>>, <<8124, 8124, 1, 9>>,
             <<8126, 8126, 1, 7289>>, <<8136, 8139, 1, 86>>, <<8140, 8140, 1, 9>>,
             <<8152, 8153, 1, 8>>, <<8154, 8155, 1, 100>>, <<8168, 8169, 1, 8>>,
             <<8170, 8171, 1, 112>>, <<8172, 8172, 1, 7>>, <<8184, 8185, 1, 128>>,
             <<8186, 8187, 1, 126>>, <<8188, 8188, 1, 9>>, <<8486, 8486, 1, 7549>>,
             <<8490, 8490, 1, 8415>>, <<8491, 8491, 1, 8294>>, <<8526, 8526, 1, 28>>,
             <<8560, 8575, 1, 16>>, <<8580, 8580, 1, 1>>, <<9424, 9449, 1, 26>>,
             <<11312, 11359, 1, 48>>, <<11361, 11361, 1, 1>>, <<11362, 11362, 1, 10743>>,
             <<11363, 11363, 1, 3814>>, <<11364, 11364, 1, 10727>>, <<11365, 11365, 1, 10795>>,
             <<11366, 11366, 1, 10792>>, <<11368, 11372, 2, 1>>, <<11373, 11373, 1, 10780>>,
             <<11374, 11374, 1, 10749>>, <<11375, 11375, 1, 10783>>, <<11376, 11376, 1, 10782>>,
             <<11379, 11379, 1, 1>>, <<11382, 11382, 1, 1>>, <<11390, 11391, 1, 10815>>,
             <<11393, 11491, 2, 1>>, <<11500, 11502, 2, 1>>, <<11507, 11507, 1, 1>>,
             <<11520, 11557, 1, 7264>>, <<11559, 11559, 1, 7264>>, <<11565, 11565, 1, 7264>>,
             <<42561, 42569, 2, 1>>, <<42570, 42570, 1, 35266>>, <<42571, 42571, 1, 35267>>,
             <<42573, 42605, 2, 1>>, <<42625, 42651, 2, 1>>, <<42787, 42799, 2, 1>>,
             <<42803, 42863, 2, 1>>, <<42874, 42876, 2, 1>>, <<42877, 42877, 1, 35332>>,
             <<42879, 42887, 2, 1>>, <<42892, 42892, 1, 1>>, <<42893, 42893, 1, 42280>>,
             <<42897, 42899, 2, 1>>, <<42903, 42921, 2, 1>>, <<42922, 42922, 1, 42308>>,
             <<42923, 42923, 1, 42319>>, <<42924, 42924, 1, 42315>>, <<42925, 42925, 1, 42305>>,
             <<42926, 42926, 1, 42308>>, <<42928, 42928, 1, 42258>>, <<42929, 42929, 1, 42282>>,
             <<42930, 42930, 1, 42261>>, <<42933, 42947, 2, 1>>, <<42948, 42948, 1, 48>>,
             <<42949, 42949, 1, 42307>>, <<42950, 42950, 1, 35384>>, <<42952, 42954, 2, 1>>,
             <<42961, 42961, 1, 1>>, <<42967, 42969, 2, 1>>, <<42998, 42998, 1, 1>>,
             <<43859, 43859, 1, 928>>, <<43888, 43967, 1, 38864>>, <<65345, 65370, 1, 32>>,
             <<66600, 66639, 1, 40>>, <<66776, 66811, 1, 40>>, <<66967, 67003, 2, 39>>,
             <<66968, 66977, 1, 39>>, <<66979, 66993, 1, 39>>, <<66995, 67001, 1, 39>>,
             <<67003, 67004, 1, 39>>, <<68800, 68850, 1, 64>>, <<71872, 71903, 1, 32>>,
             <<93792, 93823, 1, 32>>, <<125218, 125251, 1, 34>>}
        FoldRune(c) ==
            IF c >= 1114112 THEN 65533
            ELSE IF \E f \in FoldRanges : c >= f[1] /\ c <= f[2] /\ (c - f[1]) % f[3] = 0
            THEN c - (CHOOSE f \in FoldRanges :
                          c >= f[1] /\ c <= f[2] /\ (c - f[1]) % f[3] = 0)[4]
            ELSE c
    IN  /\ Len(s) = Len(t)
        /\ \A i \in 1..Len(s) : FoldRune(s[i]) = FoldRune(t[i])

IsDigit(c) == c >= 48 /\ c <= 57

\* the first position of s from position i on whose character is in cs, or 0
RECURSIVE IndexAny(_, _, _)
IndexAny(s, cs, i) ==
    IF i > Len(s) THEN 0
    ELSE IF s[i] \in cs THEN i
    ELSE IndexAny(s, cs, i + 1)

\* the last position of s up to position i whose character is c, or 0
RECURSIVE LastIndex(_, _, _)
LastIndex(s, c, i) ==
    IF i = 0 THEN 0
    ELSE IF s[i] = c THEN i
    ELSE LastIndex(s, c, i - 1)

\* netip.ParseAddr(s): 4 for an IPv4 address, 6 for an IPv6 address, 0 for
\* the error (with which ParseAddr returns the zero Addr).  The first of
\* ".", ":" and "%" in s decides how s is read.  An IPv4 address is four
\* fields of digits, without a leading zero and at most 255.  An IPv6 address
\* is read field by field (Fields: the text left, the bytes filled so far,
\* and whether "::" was seen); it may end in an IPv4 address and in "%zone".
ParseAddr(s) ==
    LET IsOctet(f) ==
            /\ Len(f) \in 1..3
            /\ \A i \in 1..Len(f) : IsDigit(f[i])
            /\ Len(f) > 1 => f[1] # 48
            /\ Len(f) = 3 => (f[1] - 48) * 100 + (f[2] - 48) * 10 + (f[3] - 48) <= 255
        Octets(fs) == Len(fs) = 4 /\ \A i \in 1..4 : IsOctet(fs[i])
        IsIPv4(t) == Octets(Split(t, 46))
        IsHexDigit(c) == IsDigit(c) \/ (c >= 97 /\ c <= 102) \/ (c >= 65 /\ c <= 70)
        RECURSIVE HexRun(_, _)
        HexRun(t, n) == IF n < Len(t) /\ IsHexDigit(t[n + 1]) THEN HexRun(t, n + 1) ELSE n
        RECURSIVE Fields(_, _, _)
        RECURSIVE Field(_, _, _, _)
        \* the field of n hexadecimal digits at the start of t
        Field(t, i, ellipsis, n) ==
            IF i >= 16 THEN FALSE
            ELSE IF n = 0 \/ n > 4 THEN FALSE
            ELSE IF n < Len(t) /\ t[n + 1] = 46
            THEN IsIPv4(t) /\ IF ellipsis THEN i < 12 ELSE i = 12
            ELSE IF n = Len(t)
            THEN IF ellipsis THEN i + 2 < 16 ELSE i + 2 = 16
            ELSE IF t[n + 1] # 58 \/ n + 1 = Len(t) THEN FALSE
            ELSE IF t[n + 2] # 58
            THEN Fields(SubSeq(t, n + 2, Len(t)), i + 2, ellipsis)
            ELSE IF ellipsis THEN FALSE
            ELSE IF n + 2 = Len(t) THEN i + 2 < 16
            ELSE Fields(SubSeq(t, n + 3, Len(t)), i + 2, TRUE)
        Fields(t, i, ellipsis) == Field(t, i, ellipsis, HexRun(t, 0))
        Address(a) ==
            IF Len(a) >= 2 /\ a[1] = 58 /\ a[2] = 58
            THEN Len(a) = 2 \/ Fields(SubSeq(a, 3, Len(a)), 0, TRUE)
            ELSE Fields(a, 0, FALSE)
        Zoned(t, zone) ==
            /\ zone # Len(t)
            /\ Address(IF zone = 0 THEN t ELSE SubSeq(t, 1, zone - 1))
        IsIPv6(t) == Zoned(t, IndexAny(t, {37}, 1))
        Kind(first) ==
            IF first = 0 THEN 0
            ELSE IF s[first] = 46 THEN (IF IsIPv4(s) THEN 4 ELSE 0)
            ELSE IF s[first] = 58 THEN (IF IsIPv6(s) THEN 6 ELSE 0)
            ELSE 0
    IN  Kind(IndexAny(s, {46, 58, 37}, 1))

-----------------------------------------------------------------------------
(* validateListeners and validateAdvertisedListeners.                      *)

\* Is4() of the two addresses; the zero Addr of a failed ParseAddr is not IPv4
areIpProtocolsSame(host1, host2) == (ParseAddr(host1) = 4) = (ParseAddr(host2) = 4)

\* The loop of validateListeners from listener i on; ports and listenerNames
\* map a port and a name to the host of the last listener seen with it.
RECURSIVE ValidateListenersFrom(_, _, _, _)
ValidateListenersFrom(ls, i, ports, listenerNames) ==
    IF i > Len(ls) THEN NilError
    ELSE IF /\ ls[i].Port \in DOMAIN ports
            /\ areIpProtocolsSame(ls[i].Host, ports[ls[i].Port])
    THEN Errorf("listener port is not unique for listener %s", ls[i].ListenerName)
    ELSE IF /\ ls[i].ListenerName \in DOMAIN listenerNames
            /\ areIpProtocolsSame(ls[i].Host, listenerNames[ls[i].ListenerName])
    THEN Errorf("listener name is not unique for listener %s", ls[i].ListenerName)
    ELSE ValidateListenersFrom(ls, i + 1,
                               (ls[i].Port :> ls[i].Host) @@ ports,
                               (ls[i].ListenerName :> ls[i].Host) @@ listenerNames)

validateListeners(b) == ValidateListenersFrom(b.Listeners.elems, 1, <<>>, <<>>)

\* "0.0.0.0"
HostAny == <<48, 46, 48, 46, 48, 46, 48>>

\* a slip: only the first advertised listener is looked at
validateAdvertisedListenersFirst(b) ==
    IF /\ SliceLen(b.AdvertisedListeners) > 0
       /\ \/ EqualFold(b.AdvertisedListeners.elems[1].Host, HostAny)
          \/ b.AdvertisedListeners.elems[1].Host = <<>>
    THEN Errorf("advertising listener on 0.0.0.0 address is not allowed for listener %s",
                b.AdvertisedListeners.elems[1].ListenerName)
    ELSE NilError

RECURSIVE ValidateAdvertisedFrom(_, _)
ValidateAdvertisedFrom(ls, i) ==
    IF i > Len(ls) THEN NilError
    ELSE IF EqualFold(ls[i].Host, HostAny) \/ ls[i].Host = <<>>
    THEN Errorf("advertising listener on 0.0.0.0 address is not allowed for listener %s",
                ls[i].ListenerName)
    ELSE ValidateAdvertisedFrom(ls, i + 1)

validateAdvertisedListeners(b) == ValidateAdvertisedFrom(b.AdvertisedListeners.elems, 1)

-----------------------------------------------------------------------------
(* parseListener, with url.Parse, net.SplitHostPort and strconv.Atoi of    *)
(* the Go library as the program calls them.  net/url is the one with the  *)
(* check of bracketed hosts (a host in brackets must be an IPv6 address).  *)

\* utils.GetEnvVar is not among the source files: as its callers use it,
\* it returns the value and true for a setting that is set, the fallback and
\* false otherwise
GetEnvVar(key, fallback) ==
    IF env[key].set THEN [val |-> env[key].val, ok |-> TRUE]
    ELSE [val |-> fallback, ok |-> FALSE]

\* net/url getScheme, at position i of rawURL: letters go on, a digit or one of
\* + - . goes on but at the start, a colon ends the scheme (and is an error at
\* the start), any other character means there is no scheme
RECURSIVE getScheme(_, _)
getScheme(rawURL, i) ==
    IF i > Len(rawURL) THEN [scheme |-> <<>>, rest |-> rawURL, err |-> NilError]
    ELSE IF (rawURL[i] >= 65 /\ rawURL[i] <= 90) \/ (rawURL[i] >= 97 /\ rawURL[i] <= 122)
    THEN getScheme(rawURL, i + 1)
    ELSE IF (IsDigit(rawURL[i]) \/ rawURL[i] \in {43, 45, 46}) /\ i > 1
    THEN getScheme(rawURL, i + 1)
    ELSE IF rawURL[i] = 58 /\ i = 1
    THEN [scheme |-> <<>>, rest |-> <<>>, err |-> Errorf("missing protocol scheme", <<>>)]
    ELSE IF rawURL[i] = 58
    THEN [scheme |-> SubSeq(rawURL, 1, i - 1), rest |-> SubSeq(rawURL, i + 1, Len(rawURL)),
          err |-> NilError]
    ELSE [scheme |-> <<>>, rest |-> rawURL, err |-> NilError]

\* net/url unescape(s, mode).  The first character that is not allowed makes
\* the error: a "%" that two hexadecimal digits do not follow; in a host, an
\* escape below %80 other than %25; in a zone, an escape other than %25 and
\* %20 of a byte that a host cannot hold; in a host or a zone, an ASCII
\* character other than a letter, a digit and !$&'()*+,;=:[]<>"-_.~ .  In a
\* path, a fragment and a user name only the escapes are checked.  Without
\* error each escape is replaced by its byte: the string is taken as bytes
\* (Bytes, in UTF-8) and read back (Runes); a byte that is part of no UTF-8
\* sequence is kept as 1114112 plus the byte.
unescape(s, mode) ==
    LET IsHexDigit(c) == IsDigit(c) \/ (c >= 97 /\ c <= 102) \/ (c >= 65 /\ c <= 70)
        unhex(c) == IF IsDigit(c) THEN c - 48 ELSE IF c >= 97 THEN c - 87 ELSE c - 55
        shouldEscape(c) ==
            ~(\/ IsDigit(c) \/ (c >= 65 /\ c <= 90) \/ (c >= 97 /\ c <= 122)
              \/ c \in {33, 36, 38, 39, 40, 41, 42, 43, 44, 59, 61, 58, 91, 93, 60, 62, 34,
                        45, 95, 46, 126})
        EncodeRune(c) ==
            IF c < 128 THEN <<c>>
            ELSE IF c < 2048 THEN <<192 + (c \div 64), 128 + (c % 64)>>
            ELSE IF c < 65536
            THEN <<224 + (c \div 4096), 128 + ((c \div 64) % 64), 128 + (c % 64)>>
            ELSE IF c < 1114112
            THEN <<240 + (c \div 262144), 128 + ((c \div 4096) % 64),
                   128 + ((c \div 64) % 64), 128 + (c % 64)>>
            ELSE <<c - 1114112>>
        RECURSIVE Bytes(_)
        Bytes(i) ==
            IF i > Len(s) THEN <<>>
            ELSE IF s[i] = 37
            THEN <<unhex(s[i + 1]) * 16 + unhex(s[i + 2])>> \o Bytes(i + 3)
            ELSE EncodeRune(s[i]) \o Bytes(i + 1)
        Cont(b, i) == i <= Len(b) /\ b[i] >= 128 /\ b[i] <= 191
        \* the length of the UTF-8 sequence that starts at byte i of b, or 0
        Width(b, i) ==
            IF b[i] < 128 THEN 1
            ELSE IF b[i] >= 194 /\ b[i] <= 223 /\ Cont(b, i + 1) THEN 2
            ELSE IF /\ b[i] >= 224 /\ b[i] <= 239
                    /\ Cont(b, i + 1) /\ Cont(b, i + 2)
                    /\ (b[i] = 224 => b[i + 1] >= 160)
                    /\ (b[i] = 237 => b[i + 1] <= 159)
            THEN 3
            ELSE IF /\ b[i] >= 240 /\ b[i] <= 244
                    /\ Cont(b, i + 1) /\ Cont(b, i + 2) /\ Cont(b, i + 3)
                    /\ (b[i] = 240 => b[i + 1] >= 144)
                    /\ (b[i] = 244 => b[i + 1] <= 143)
            THEN 4
            ELSE 0
        RECURSIVE Runes(_, _)
        RECURSIVE Rune(_, _, _)
        \* the rune of the w bytes at byte i of b, and the runes that follow
        Rune(b, i, w) ==
            IF w = 1 THEN <<b[i]>> \o Runes(b, i + 1)
            ELSE IF w = 2
            THEN <<(b[i] - 192) * 64 + (b[i + 1] - 128)>> \o Runes(b, i + 2)
            ELSE IF w = 3
            THEN <<(b[i] - 224) * 4096 + (b[i + 1] - 128) * 64 + (b[i + 2] - 128)>>
                 \o Runes(b, i + 3)
            ELSE IF w = 4
            THEN <<(b[i] - 240) * 262144 + (b[i + 1] - 128) * 4096 + (b[i + 2] - 128) * 64
                   + (b[i + 3] - 128)>> \o Runes(b, i + 4)
            ELSE <<1114112 + b[i]>> \o Runes(b, i + 1)
        Runes(b, i) == IF i > Len(b) THEN <<>> ELSE Rune(b, i, Width(b, i))
        \* s[i:] cut to its first three bytes, as the error shows it
        First(b) == Runes(SubSeq(b, 1, IF Len(b) > 3 THEN 3 ELSE Len(b)), 1)
        Escape(i) ==
            First(EncodeRune(s[i])
                  \o (IF i + 1 > Len(s) THEN <<>> ELSE EncodeRune(s[i + 1]))
                  \o (IF i + 2 > Len(s) THEN <<>> ELSE EncodeRune(s[i + 2])))
        BadEscape(i) ==
            \/ i + 2 > Len(s)
            \/ ~IsHexDigit(s[i + 1])
            \/ ~IsHexDigit(s[i + 2])
            \/ /\ mode = "encodeHost"
               /\ unhex(s[i + 1]) < 8
               /\ Escape(i) # <<37, 50, 53>>
            \/ /\ mode = "encodeZone"
               /\ Escape(i) # <<37, 50, 53>>
               /\ unhex(s[i + 1]) * 16 + unhex(s[i + 2]) # 32
               /\ shouldEscape(unhex(s[i + 1]) * 16 + unhex(s[i + 2]))
        Bad(i) ==
            IF s[i] = 37 THEN BadEscape(i)
            ELSE mode \in {"encodeHost", "encodeZone"} /\ s[i] < 128 /\ shouldEscape(s[i])
        \* the result, with the first position that is not allowed, or 0
        Result(bad) ==
            IF bad # 0 /\ s[bad] = 37
            THEN [val |-> <<>>, err |-> Errorf("invalid URL escape %q", Escape(bad))]
            ELSE IF bad # 0
            THEN [val |-> <<>>, err |-> Errorf("invalid character %q in host name", <<s[bad]>>)]
            ELSE IF \A i \in 1..Len(s) : s[i] # 37 THEN [val |-> s, err |-> NilError]
            ELSE [val |-> Runes(Bytes(1), 1), err |-> NilError]
    IN  Result(IF \E i \in 1..Len(s) : Bad(i)
               THEN CHOOSE i \in 1..Len(s) : Bad(i) /\ \A j \in 1..(i - 1) : ~Bad(j)
               ELSE 0)

\* net/url parseHost(host).  A host with "[" is an IP literal: the text from
\* the last "[" to the last "]" must be an IPv6 address, a zone from "%25" on
\* included, and what follows "]" an optional port; the brackets stay in the
\* result.  Otherwise what follows the last colon must be an optional port.
parseHost(host) ==
    LET validOptionalPort(port) ==
            \/ port = <<>>
            \/ port[1] = 58 /\ \A i \in 2..Len(port) : IsDigit(port[i])
        Fail(e) == [val |-> <<>>, err |-> e]
        open == LastIndex(host, 91, Len(host))
        close == LastIndex(host, 93, Len(host))
        colon == LastIndex(host, 58, Len(host))
        colonPort == SubSeq(host, close + 1, Len(host))
        hostname == SubSeq(host, open + 1, close - 1)
        RECURSIVE ZoneIndex(_, _)
        ZoneIndex(name, i) ==
            IF i + 2 > Len(name) THEN 0
            ELSE IF SubSeq(name, i, i + 2) = <<37, 50, 53>> THEN i
            ELSE ZoneIndex(name, i + 1)
        HostText(name, zone) == IF zone = 0 THEN name ELSE SubSeq(name, 1, zone - 1)
        ZoneText(name, zone) == IF zone = 0 THEN <<>> ELSE SubSeq(name, zone, Len(name))
        Address(text, kind) ==
            IF kind = 0 THEN Fail(Errorf("invalid host: %s", text))
            ELSE IF kind = 4 THEN Fail(Errorf("invalid IP-literal", <<>>))
            ELSE [val |-> <<91>> \o text \o <<93>> \o colonPort, err |-> NilError]
        Literal(hostPart, zonePart) ==
            IF hostPart.err # NilError THEN Fail(hostPart.err)
            ELSE IF zonePart.err # NilError THEN Fail(zonePart.err)
            ELSE Address(hostPart.val \o zonePart.val, ParseAddr(hostPart.val \o zonePart.val))
    IN  IF open # 0
        THEN IF close = 0 THEN Fail(Errorf("missing ']' in host", <<>>))
             ELSE IF ~validOptionalPort(colonPort)
             THEN Fail(Errorf("invalid port %q after host", colonPort))
             ELSE Literal(unescape(HostText(hostname, ZoneIndex(hostname, 1)), "encodeHost"),
                          unescape(ZoneText(hostname, ZoneIndex(hostname, 1)), "encodeZone"))
        ELSE IF colon # 0 /\ ~validOptionalPort(SubSeq(host, colon, Len(host)))
        THEN Fail(Errorf("invalid port %q after host", SubSeq(host, colon, Len(host))))
        ELSE unescape(host, "encodeHost")

\* net/url parse(rawURL, false), for the Scheme and the Host of the URL.  The
\* scheme is cut off and put in lower case, then the query from the first "?"
\* on.  A rest that starts with "//" holds the authority up to the next "/":
\* user information up to the last "@", then the host.  With a scheme and no
\* leading "/" the rest is opaque and there is no host; without a scheme the
\* first path segment must hold no colon.  The user name and the password,
\* which a colon separates, and last the path are checked for their escapes.
parse(rawURL) ==
    LET ToLower(s) ==
            [i \in 1..Len(s) |-> IF s[i] >= 65 /\ s[i] <= 90 THEN s[i] + 32 ELSE s[i]]
        Fail(e) == [Scheme |-> <<>>, Host |-> <<>>, err |-> e]
        Before(s, i) == IF i = 0 THEN s ELSE SubSeq(s, 1, i - 1)
        After(s, i) == IF i = 0 THEN <<>> ELSE SubSeq(s, i + 1, Len(s))
        HasPrefix(s, n) == Len(s) >= n /\ \A i \in 1..n : s[i] = 47
        Segment(s, i) == i > 0 /\ s[i] = 58
        g == getScheme(rawURL, 1)
        \* without the query
        rest == Before(g.rest, IndexAny(g.rest, {63}, 1))
        \* after the "//" of rest: the authority, up to the next "/", and the path
        Authority(s) == Before(s, IndexAny(s, {47}, 1))
        Path(s) == SubSeq(s, Len(Authority(s)) + 1, Len(s))
        At(authority) == LastIndex(authority, 64, Len(authority))
        Host(authority) == SubSeq(authority, At(authority) + 1, Len(authority))
        Userinfo(authority) == SubSeq(authority, 1, At(authority) - 1)
        Username(userinfo) == Before(userinfo, IndexAny(userinfo, {58}, 1))
        Password(userinfo) == After(userinfo, IndexAny(userinfo, {58}, 1))
        validUserinfo(userinfo) ==
            \A i \in 1..Len(userinfo) :
                \/ IsDigit(userinfo[i])
                \/ userinfo[i] >= 65 /\ userinfo[i] <= 90
                \/ userinfo[i] >= 97 /\ userinfo[i] <= 122
                \/ userinfo[i] \in {45, 46, 95, 58, 126, 33, 36, 38, 39, 40, 41, 42, 43, 44,
                                    59, 61, 37, 64}
        \* setPath, after the authority or without one
        SetPath(host, path) ==
            IF path.err # NilError THEN Fail(path.err)
            ELSE [Scheme |-> ToLower(g.scheme), Host |-> host, err |-> NilError]
        \* parseAuthority, then setPath
        Parsed(at, host, valid, username, password, path) ==
            IF host.err # NilError THEN Fail(host.err)
            ELSE IF at # 0 /\ ~valid THEN Fail(Errorf("net/url: invalid userinfo", <<>>))
            ELSE IF at # 0 /\ username.err # NilError THEN Fail(username.err)
            ELSE IF at # 0 /\ password.err # NilError THEN Fail(password.err)
            ELSE SetPath(host.val, path)
        Slashes(authority, path) ==
            Parsed(At(authority), parseHost(Host(authority)),
                   validUserinfo(Userinfo(authority)),
                   unescape(Username(Userinfo(authority)), "encodeUserPassword"),
                   unescape(Password(Userinfo(authority)), "encodeUserPassword"),
                   unescape(path, "encodePath"))
    IN  IF \E i \in 1..Len(rawURL) : rawURL[i] < 32 \/ rawURL[i] = 127
        THEN Fail(Errorf("net/url: invalid control character in URL", <<>>))
        ELSE IF rawURL = <<42>> THEN [Scheme |-> <<>>, Host |-> <<>>, err |-> NilError]
        ELSE IF g.err # NilError THEN Fail(g.err)
        ELSE IF ~HasPrefix(rest, 1) /\ g.scheme # <<>>
        THEN [Scheme |-> ToLower(g.scheme), Host |-> <<>>, err |-> NilError]
        ELSE IF ~HasPrefix(rest, 1) /\ Segment(rest, IndexAny(rest, {47, 58}, 1))
        THEN Fail(Errorf("first path segment in URL cannot contain colon", <<>>))
        ELSE IF HasPrefix(rest, 2) /\ (g.scheme # <<>> \/ ~HasPrefix(rest, 3))
        THEN Slashes(Authority(SubSeq(rest, 3, Len(rest))), Path(SubSeq(rest, 3, Len(rest))))
        ELSE SetPath(<<>>, unescape(rest, "encodePath"))

\* url.Parse(rawURL): the Scheme and Host of the URL, or the error.  The
\* fragment is cut off at the first "#" and checked after the rest is parsed.
ParseURL(rawURL) ==
    LET hash == IndexAny(rawURL, {35}, 1)
        Fragment(url, frag) ==
            IF url.err # NilError THEN url
            ELSE IF frag.err # NilError
            THEN [Scheme |-> <<>>, Host |-> <<>>, err |-> frag.err]
            ELSE url
    IN  Fragment(parse(IF hash = 0 THEN rawURL ELSE SubSeq(rawURL, 1, hash - 1)),
                 unescape(IF hash = 0 THEN <<>> ELSE SubSeq(rawURL, hash + 1, Len(rawURL)),
                          "encodeFragment"))

\* net.SplitHostPort(hostport): the port follows the last colon.  A host in
\* brackets ends at the first "]", which the last colon must follow; a host
\* without brackets holds no colon; no other bracket may occur.
SplitHostPort(hostport) ==
    LET i == LastIndex(hostport, 58, Len(hostport))
        end == IndexAny(hostport, {93}, 1)
        bracketed == hostport[1] = 91
        host == IF bracketed THEN SubSeq(hostport, 2, end - 1)
                ELSE SubSeq(hostport, 1, i - 1)
        j == IF bracketed THEN 2 ELSE 1
        k == IF bracketed THEN end + 1 ELSE 1
        Fail(why) == [host |-> <<>>, port |-> <<>>, err |-> Errorf(why, hostport)]
    IN  IF i = 0 THEN Fail("missing port in address")
        ELSE IF bracketed /\ end = 0 THEN Fail("missing ']' in address")
        ELSE IF bracketed /\ end = Len(hostport) THEN Fail("missing port in address")
        ELSE IF bracketed /\ end + 1 # i /\ hostport[end + 1] = 58
        THEN Fail("too many colons in address")
        ELSE IF bracketed /\ end + 1 # i THEN Fail("missing port in address")
        ELSE IF ~bracketed /\ IndexAny(host, {58}, 1) # 0
        THEN Fail("too many colons in address")
        ELSE IF IndexAny(hostport, {91}, j) # 0 THEN Fail("unexpected '[' in address")
        ELSE IF IndexAny(hostport, {93}, k) # 0 THEN Fail("unexpected ']' in address")
        ELSE [host |-> host, port |-> SubSeq(hostport, i + 1, Len(hostport)),
              err |-> NilError]

\* strconv.Atoi(s), with an int of 64 bits.  After an optional sign come the
\* digits; the value is the pair of the sign and the numeral without leading
\* zeros (none for 0).  A numeral above 2^64 - 1 is out of range before a
\* character that is no digit is met, which is a syntax error; a value
\* outside -2^63 .. 2^63 - 1 is out of range.
Atoi(s) ==
    LET RECURSIVE Numeral(_)
        Numeral(d) == IF d # <<>> /\ d[1] = 48 THEN Numeral(Tail(d)) ELSE d
        Above(d, e) ==
            \/ Len(d) > Len(e)
            \/ /\ Len(d) = Len(e)
               /\ \E n \in 1..Len(d) : d[n] > e[n] /\ \A m \in 1..(n - 1) : d[m] = e[m]
        \* "18446744073709551615", "9223372036854775807", "9223372036854775808"
        maxUint64 == <<49, 56, 52, 52, 54, 55, 52, 52, 48, 55, 51, 55, 48, 57, 53, 53, 49,
                       54, 49, 53>>
        maxInt64 == <<57, 50, 50, 51, 51, 55, 50, 48, 51, 54, 56, 53, 52, 55, 55, 53, 56,
                      48, 55>>
        minInt64 == <<57, 50, 50, 51, 51, 55, 50, 48, 51, 54, 56, 53, 52, 55, 55, 53, 56,
                      48, 56>>
        Fail(why) == [val |-> [neg |-> FALSE, numeral |-> <<>>], err |-> Errorf(why, s)]
        \* the numeral of the digits, and the first position that is no digit
        Value(numeral, stop) ==
            IF Above(numeral, maxUint64)
            THEN Fail("strconv.Atoi: parsing %q: value out of range")
            ELSE IF stop # 0 THEN Fail("strconv.Atoi: parsing %q: invalid syntax")
            ELSE IF Above(numeral, IF s[1] = 45 THEN minInt64 ELSE maxInt64)
            THEN Fail("strconv.Atoi: parsing %q: value out of range")
            ELSE [val |-> [neg |-> s[1] = 45 /\ numeral # <<>>, numeral |-> numeral],
                  err |-> NilError]
        Digits(body, stop) ==
            Value(Numeral(IF stop = 0 THEN body ELSE SubSeq(body, 1, stop - 1)), stop)
        Body(body) ==
            IF body = <<>> THEN Fail("strconv.Atoi: parsing %q: invalid syntax")
            ELSE Digits(body,
                        IF \A i \in 1..Len(body) : IsDigit(body[i]) THEN 0
                        ELSE CHOOSE i \in 1..Len(body) :
                                 ~IsDigit(body[i]) /\ \A j \in 1..(i - 1) : IsDigit(body[j]))
    IN  Body(IF s # <<>> /\ s[1] \in {43, 45} THEN Tail(s) ELSE s)

\* int32(n) of an int n that Atoi returned: the low 32 bits of n in two's
\* complement.  The numeral is read digit by digit into two halves of 16 bits.
ToInt32(n) ==
    LET Half(h, lo) == [hi |-> (h.hi * 10 + (lo \div 65536)) % 65536, lo |-> lo % 65536]
        Digit(h, d) == Half(h, h.lo * 10 + (d - 48))
        RECURSIVE Halves(_)
        Halves(k) ==
            IF k = 0 THEN [hi |-> 0, lo |-> 0] ELSE Digit(Halves(k - 1), n.numeral[k])
        Join(hi, lo) == IF hi >= 32768 THEN (hi - 65536) * 65536 + lo ELSE hi * 65536 + lo
        Signed(m) ==
            IF n.neg
            THEN Join((65535 - m.hi + (IF m.lo = 0 THEN 1 ELSE 0)) % 65536,
                      (65536 - m.lo) % 65536)
            ELSE Join(m.hi, m.lo)
    IN  Signed(Halves(Len(n.numeral)))

\* components[1] of an entry of the map that holds no colon
IndexOutOfRange == Errorf("panic: runtime error: index out of range [1] with length 1", <<>>)

\* The loop of getBrokerNameComponents over the entries spm from entry i on.
\* The first entry whose name folds to s decides; reading its protocol when
\* the entry holds no colon is an index out of range, which panics.
RECURSIVE BrokerNameFromMap(_, _, _)
BrokerNameFromMap(s, spm, i) ==
    LET Entry(components) ==
            IF ~EqualFold(s, components[1])
            THEN BrokerNameFromMap(s, spm, i + 1)
            ELSE IF Len(components) < 2
            THEN [name |-> <<>>, protocol |-> UNDEFINED, err |-> IndexOutOfRange]
            ELSE IF ~ParseSecurityProtocol(components[2]).ok
            THEN [name |-> <<>>, protocol |-> UNDEFINED,
                  err |-> Errorf("unknown security protocol for listener %s", components[1])]
            ELSE [name |-> s, protocol |-> ParseSecurityProtocol(components[2]).protocol,
                  err |-> NilError]
    IN  IF i > Len(spm)
        THEN [name |-> <<>>, protocol |-> UNDEFINED,
              err |-> Errorf("broker %s not found in listener.security.protocol.map", s)]
        ELSE Entry(Split(spm[i], 58))

getBrokerNameComponents(s) ==
    IF ParseSecurityProtocol(s).ok
    THEN [name |-> s, protocol |-> ParseSecurityProtocol(s).protocol, err |-> NilError]
    ELSE BrokerNameFromMap(s,
             Split(ReplaceAll(GetEnvVar("listener.security.protocol.map", <<>>).val, 32), 44),
             1)

parseListener(l) ==
    LET Fail(e) == [listener |-> ZeroListener, err |-> e]
        Port(c, hp, parsedPort) ==
            IF parsedPort.err # NilError THEN Fail(parsedPort.err)
            ELSE [listener |-> [Host |-> hp.host, Port |-> ToInt32(parsedPort.val),
                                SecurityProtocol |-> c.protocol, ListenerName |-> c.name],
                  err |-> NilError]
        HostPort(c, hp) ==
            IF hp.err # NilError THEN Fail(hp.err) ELSE Port(c, hp, Atoi(hp.port))
        Components(u, c) ==
            IF c.err # NilError THEN Fail(c.err) ELSE HostPort(c, SplitHostPort(u.Host))
        URL(u) ==
            IF u.err # NilError THEN Fail(u.err)
            ELSE Components(u, getBrokerNameComponents(u.Scheme))
    IN  URL(ParseURL(l))

-----------------------------------------------------------------------------
(* parseListeners and NewBroker. *)

RESERVED_BROKER_MAX_ID == 1000

\* The loop of parseListeners from string i on, with the listeners parsed so
\* far; an empty string is skipped, and an error gives an empty list up.
RECURSIVE ParseListenersFrom(_, _, _)
ParseListenersFrom(listeners, i, result) ==
    LET Parsed(listener) ==
            IF listener.err # NilError
            THEN [list |-> MakeSlice(0, ZeroListener), err |-> listener.err]
            ELSE ParseListenersFrom(listeners, i + 1, SliceAppend(result, listener.listener))
    IN  IF i > Len(listeners) THEN [list |-> result, err |-> NilError]
        ELSE IF listeners[i] = <<>> THEN ParseListenersFrom(listeners, i + 1, result)
        ELSE Parsed(parseListener(listeners[i]))

parseListeners(listeners) == ParseListenersFrom(listeners, 1, MakeSlice(0, ZeroListener))

\* strings.Split returns at least one string, "" for an empty setting, and
\* append(s, t...) leaves a nil slice nil when t is empty.  From the broker id
\* on, the broker built so far is returned with the error.
NewBroker ==
    LET AppendAll(s, t) ==
            IF SliceLen(t) = 0 THEN s ELSE [isNil |-> FALSE, elems |-> s.elems \o t.elems]
        Fail(e) == [broker |-> ZeroBroker, err |-> e]
        advertised == Split(ReplaceAll(GetEnvVar("advertised.listeners", <<>>).val, 32), 44)
        listeners == Split(ReplaceAll(GetEnvVar("listeners", <<>>).val, 32), 44)
        WithListeners(listenersArray) ==
            [ZeroBroker EXCEPT !.Listeners = AppendAll(@, listenersArray.list)]
        WithAdvertised(b, advertisedListenersArr) ==
            [b EXCEPT !.AdvertisedListeners = AppendAll(@, advertisedListenersArr.list)]
        BrokerId(b, brokerId) ==
            IF brokerId.err # NilError
            THEN [broker |-> b, err |-> Errorf("error parsing broker.id: %s", brokerId.err.arg)]
            ELSE IF ~brokerId.val.neg /\ Len(brokerId.val.numeral) >= 4
                    /\ (Len(brokerId.val.numeral) = 4
                           => ToInt32(brokerId.val) > RESERVED_BROKER_MAX_ID)
            THEN [broker |-> b,
                  err |-> Errorf("the configured node ID is greater than reserved.broker.max.id",
                                 <<>>)]
            ELSE [broker |-> [b EXCEPT !.BrokerID =
                                     IF brokerId.val = [neg |-> TRUE, numeral |-> <<49>>]
                                     THEN RESERVED_BROKER_MAX_ID + 1
                                     ELSE ToInt32(brokerId.val)],
                  err |-> NilError]
        \* the steps in their order, each with the error it may stop with
        Steps(listenersErr, invalidListeners, advertisedErr, invalidAdvertised, b) ==
            IF listenersErr # NilError THEN Fail(listenersErr)
            ELSE IF invalidListeners # NilError THEN Fail(invalidListeners)
            ELSE IF advertisedErr # NilError THEN Fail(advertisedErr)
            ELSE IF invalidAdvertised # NilError THEN Fail(invalidAdvertised)
            ELSE BrokerId(b, Atoi(GetEnvVar("broker.id", <<45, 49>>).val))
        Validated(listenersArray, advertisedListenersArr, withListeners, b) ==
            Steps(listenersArray.err, validateListeners(withListeners),
                  advertisedListenersArr.err, validateAdvertisedListeners(b), b)
        Parsed(listenersArray, advertisedListenersArr) ==
            Validated(listenersArray, advertisedListenersArr, WithListeners(listenersArray),
                      WithAdvertised(WithListeners(listenersArray), advertisedListenersArr))
    IN  IF ~GetEnvVar("listeners", <<>>).ok
        THEN Fail(Errorf("no listeners set", <<>>))
        ELSE Parsed(parseListeners(listeners),
                    parseListeners(IF Len(advertised) = 0 THEN listeners ELSE advertised))

-----------------------------------------------------------------------------
(* The validation scenario: a broker is given listeners or advertised      *)
(* listeners, as in broker_test.go, and one of the two checks is called.   *)

\* most listeners in a list
MaxListeners == 3

\* The listeners of broker_test.go, and more: the names "client" and
\* "broker", two ports, and as hosts "", "127.0.0.1", "::1" and "localhost"
ListenerInputs ==
    {[Host |-> h, Port |-> p, SecurityProtocol |-> PLAINTEXT, ListenerName |-> n] :
        h \in {<<>>, <<49, 50, 55, 46, 48, 46, 48, 46, 49>>, <<58, 58, 49>>,
               <<108, 111, 99, 97, 108, 104, 111, 115, 116>>},
        p \in {5432, 1234},
        n \in {<<99, 108, 105, 101, 110, 116>>, <<98, 114, 111, 107, 101, 114>>}}

\* the same with the hosts "", "0.0.0.0", "127.0.0.1" and "example.com"
AdvertisedInputs ==
    {[Host |-> h, Port |-> p, SecurityProtocol |-> PLAINTEXT, ListenerName |-> n] :
        h \in {<<>>, HostAny, <<49, 50, 55, 46, 48, 46, 48, 46, 49>>,
               <<101, 120, 97, 109, 112, 108, 101, 46, 99, 111, 109>>},
        p \in {5432, 1234},
        n \in {<<99, 108, 105, 101, 110, 116>>, <<98, 114, 111, 107, 101, 114>>}}

ValInit ==
    /\ cfgPc = "build"
    /\ env = [k \in Settings |-> [set |-> FALSE, val |-> <<>>]]
    /\ cfgArg = <<>>
    /\ broker = ZeroBroker
    /\ cfgOut = [broker |-> ZeroBroker, listener |-> ZeroListener, err |-> NilError]
    /\ CodecUnused
    /\ RegUnused
    /\ SecUnused
    /\ LogUnused

\* b.Listeners = append(b.Listeners, l)
AppendListener(l) ==
    /\ cfgPc = "build"
    /\ broker.AdvertisedListeners.isNil
    /\ SliceLen(broker.Listeners) < MaxListeners
    /\ broker' = [broker EXCEPT !.Listeners = SliceAppend(broker.Listeners, l)]
    /\ UNCHANGED <<cfgPc, env, cfgArg, cfgOut>>
    /\ UNCHANGED <<codecVars, regVars, secVars, logVars>>

\* b.AdvertisedListeners = append(b.AdvertisedListeners, l)
AppendAdvertisedListener(l) ==
    /\ cfgPc = "build"
    /\ broker.Listeners.isNil
    /\ SliceLen(broker.AdvertisedListeners) < MaxListeners
    /\ broker' = [broker EXCEPT
                     !.AdvertisedListeners = SliceAppend(broker.AdvertisedListeners, l)]
    /\ UNCHANGED <<cfgPc, env, cfgArg, cfgOut>>
    /\ UNCHANGED <<codecVars, regVars, secVars, logVars>>

\* validateListeners(b) is called; it writes nothing through b
CallValidateListeners ==
    /\ cfgPc = "build"
    /\ cfgOut' = [broker |-> broker, listener |-> ZeroListener,
                  err |-> validateListeners(broker)]
    /\ cfgPc' = "validateListeners"
    /\ UNCHANGED <<env, cfgArg, broker>>
    /\ UNCHANGED <<codecVars, regVars, secVars, logVars>>

\* validateAdvertisedListeners(b) is called; it writes nothing through b
CallValidateAdvertisedListeners ==
    /\ cfgPc = "build"
    /\ cfgOut' = [broker |-> broker, listener |-> ZeroListener,
                  err |-> validateAdvertisedListeners(broker)]
    /\ cfgPc' = "validateAdvertisedListeners"
    /\ UNCHANGED <<env, cfgArg, broker>>
    /\ UNCHANGED <<codecVars, regVars, secVars, logVars>>

ValNext ==
    \/ \E l \in ListenerInputs : AppendListener(l)
    \/ \E l \in AdvertisedInputs : AppendAdvertisedListener(l)
    \/ CallValidateListeners
    \/ CallValidateAdvertisedListeners

SpecValidate == ValInit /\ [][ValNext]_vars

-----------------------------------------------------------------------------
(* The claims about the two checks, under SpecValidate. *)

IsIPv6(host) == ParseAddr(host) = 6

\* one of the two hosts is an IPv4 address and the other an IPv6 address
OneV4OneV6(host1, host2) ==
    \/ ParseAddr(host1) = 4 /\ IsIPv6(host2)
    \/ IsIPv6(host1) /\ ParseAddr(host2) = 4

\* no two listeners of the list share a port or a name, but for pairs of one
\* IPv4 and one IPv6 host
UniqueButV4V6(ls) ==
    \A i, j \in 1..Len(ls) :
        (i < j /\ (ls[i].Port = ls[j].Port \/ ls[i].ListenerName = ls[j].ListenerName))
            => OneV4OneV6(ls[i].Host, ls[j].Host)

\* C11: validateListeners returns nil exactly when no two listeners of the
\* list share a port and no two share a name, the pairs of one IPv4 and one
\* IPv6 host excepted.
ListenerUniqueness ==
    cfgPc = "validateListeners"
        => ((cfgOut.err = NilError) <=> UniqueButV4V6(broker.Listeners.elems))

\* C12: validateAdvertisedListeners returns an error exactly when some
\* advertised listener has the host "0.0.0.0" or no host; listeners that share
\* a port, a host or a name do not make it fail, and the broker after the call
\* is the broker before it.
AdvertisedCheck ==
    cfgPc = "validateAdvertisedListeners"
        => /\ (cfgOut.err # NilError)
                  <=> (\E i \in 1..SliceLen(broker.AdvertisedListeners) :
                          broker.AdvertisedListeners.elems[i].Host \in {HostAny, <<>>})
           /\ cfgOut.broker = broker

\* three advertised listeners with one port, host and name are accepted
AdvertisedCheckSeen ==
    /\ cfgPc = "validateAdvertisedListeners"
    /\ cfgOut.err = NilError
    /\ SliceLen(broker.AdvertisedListeners) = 3
    /\ broker.AdvertisedListeners.elems[1] = broker.AdvertisedListeners.elems[2]
    /\ broker.AdvertisedListeners.elems[2] = broker.AdvertisedListeners.elems[3]

\* a list is refused for its last listener, which advertises "0.0.0.0"
AdvertisedCheckRefusedSeen ==
    /\ cfgPc = "validateAdvertisedListeners"
    /\ SliceLen(broker.AdvertisedListeners) = 3
    /\ broker.AdvertisedListeners.elems[1].Host # <<>>
    /\ broker.AdvertisedListeners.elems[1].Host # HostAny
    /\ broker.AdvertisedListeners.elems[2].Host = broker.AdvertisedListeners.elems[1].Host
    /\ broker.AdvertisedListeners.elems[3].Host = HostAny
    /\ cfgOut.err.msg # "nil"
    /\ cfgOut.err.arg = broker.AdvertisedListeners.elems[3].ListenerName

-----------------------------------------------------------------------------
(* The broker scenario: with the settings of the environment given,        *)
(* parseListener is called on a string, or NewBroker is called.            *)

\* Listeners "scheme://host:port" and what is near them: the schemes
\* "CUSTOM", "custom", "Broker", "SSL", "plaintext" and "", the host
\* "localhost" or none, the port ":9092", none, ":aaaa" or ":"; and "",
\* "CUSTOM:localhost:9092", "localhost:9092", "my_broker://localhost:9092",
\* "://localhost:9092", "CUSTOM://127.0.0.1:9092/", "SSL://[::1]:9092",
\* "CUSTOM://[::1]:9092", "SSL://h:1#frag", "SSL://u@h:1?x=1", "SSL://h h:1",
\* "SSL://localhost:4294967297"
ListenerStrings ==
    {sch \o <<58, 47, 47>> \o h \o p :
        sch \in {<<67, 85, 83, 84, 79, 77>>,
                 <<99, 117, 115, 116, 111, 109>>,
                 <<66, 114, 111, 107, 101, 114>>,
                 <<83, 83, 76>>,
                 <<112, 108, 97, 105, 110, 116, 101, 120, 116>>,
                 <<>>},
        h \in {<<108, 111, 99, 97, 108, 104, 111, 115, 116>>, <<>>},
        p \in {<<58, 57, 48, 57, 50>>, <<>>, <<58, 97, 97, 97, 97>>, <<58>>}}
    \cup
    {<<>>,
     <<67, 85, 83, 84, 79, 77, 58, 108, 111, 99, 97, 108, 104, 111, 115, 116, 58, 57, 48, 57, 50>>,
     <<108, 111, 99, 97, 108, 104, 111, 115, 116, 58, 57, 48, 57, 50>>,
     <<109, 121, 95, 98, 114, 111, 107, 101, 114, 58, 47, 47, 108, 111, 99, 97, 108, 104, 111, 115, 116, 58, 57, 48, 57, 50>>,
     <<58, 47, 47, 108, 111, 99, 97, 108, 104, 111, 115, 116, 58, 57, 48, 57, 50>>,
     <<67, 85, 83, 84, 79, 77, 58, 47, 47, 49, 50, 55, 46, 48, 46, 48, 46, 49, 58, 57, 48, 57, 50, 47>>,
     <<83, 83, 76, 58, 47, 47, 91, 58, 58, 49, 93, 58, 57, 48, 57, 50>>,
     <<67, 85, 83, 84, 79, 77, 58, 47, 47, 91, 58, 58, 49, 93, 58, 57, 48, 57, 50>>,
     <<83, 83, 76, 58, 47, 47, 104, 58, 49, 35, 102, 114, 97, 103>>,
     <<83, 83, 76, 58, 47, 47, 117, 64, 104, 58, 49, 63, 120, 61, 49>>,
     <<83, 83, 76, 58, 47, 47, 104, 32, 104, 58, 49>>,
     <<83, 83, 76, 58, 47, 47, 108, 111, 99, 97, 108, 104, 111, 115, 116, 58, 52, 50, 57, 52, 57, 54, 55, 50, 57, 55>>}

\* values of listener.security.protocol.map: "", "CUSTOM:PLAINTEXT",
\* "custom:sasl_ssl", "CUSTOM:CUSTOM", "CUSTOM", "BROKER:SSL", "BROKER:SSL,
\* CUSTOM : SSL", "CUSTOM:BOGUS,CUSTOM:SSL", "CUSTOM:SSL:x", "CUSTOM:",
\* "BROKER,CUSTOM:SSL", "cu(U+017F)tom:SSL"
MapInputs ==
    {<<>>,
     <<67, 85, 83, 84, 79, 77, 58, 80, 76, 65, 73, 78, 84, 69, 88, 84>>,
     <<99, 117, 115, 116, 111, 109, 58, 115, 97, 115, 108, 95, 115, 115, 108>>,
     <<67, 85, 83, 84, 79, 77, 58, 67, 85, 83, 84, 79, 77>>,
     <<67, 85, 83, 84, 79, 77>>,
     <<66, 82, 79, 75, 69, 82, 58, 83, 83, 76>>,
     <<66, 82, 79, 75, 69, 82, 58, 83, 83, 76, 44, 32, 67, 85, 83, 84, 79, 77, 32, 58, 32, 83, 83, 76>>,
     <<67, 85, 83, 84, 79, 77, 58, 66, 79, 71, 85, 83, 44, 67, 85, 83, 84, 79, 77, 58, 83, 83, 76>>,
     <<67, 85, 83, 84, 79, 77, 58, 83, 83, 76, 58, 120>>,
     <<67, 85, 83, 84, 79, 77, 58>>,
     <<66, 82, 79, 75, 69, 82, 44, 67, 85, 83, 84, 79, 77, 58, 83, 83, 76>>,
     <<99, 117, 383, 116, 111, 109, 58, 83, 83, 76>>}

\* The environments of the model: each setting is either not set or set to
\* one of its values.
\*   listeners: "PLAINTEXT://localhost:9092",
\*     "PLAINTEXT://localhost:9092, SSL://localhost:9093",
\*     "CUSTOM://127.0.0.1:9092",
\*     "PLAINTEXT://localhost:9092,SSL://localhost:9092",
\*     "PLAINTEXT://:9092", "PLAINTEXT://localhost:9092,,",
\*     "PLAINTEXT://127.0.0.1:9092,SSL://[::1]:9092"
\*   advertised.listeners: "", "PLAINTEXT://example.com:9092",
\*     "PLAINTEXT://0.0.0.0:9092", ",",
\*     "PLAINTEXT://example.com:9092,SSL://example.com:9092"
\*   broker.id: "5", "1001", "abc", "-1", "-4294967295"
\*   listener.security.protocol.map: the values of MapInputs
EnvInputs ==
    LET SettingOf(values) ==
            {[set |-> FALSE, val |-> <<>>]} \cup {[set |-> TRUE, val |-> v] : v \in values}
        ListenersSettings ==
            {<<80, 76, 65, 73, 78, 84, 69, 88, 84, 58, 47, 47, 108, 111, 99, 97, 108, 104, 111, 115, 116, 58, 57, 48, 57, 50>>,
             <<80, 76, 65, 73, 78, 84, 69, 88, 84, 58, 47, 47, 108, 111, 99, 97, 108, 104, 111, 115, 116, 58, 57, 48, 57, 50, 44, 32, 83, 83, 76, 58, 47, 47, 108, 111, 99, 97, 108, 104, 111, 115, 116, 58, 57, 48, 57, 51>>,
             <<67, 85, 83, 84, 79, 77, 58, 47, 47, 49, 50, 55, 46, 48, 46, 48, 46, 49, 58, 57, 48, 57, 50>>,
             <<80, 76, 65, 73, 78, 84, 69, 88, 84, 58, 47, 47, 108, 111, 99, 97, 108, 104, 111, 115, 116, 58, 57, 48, 57, 50, 44, 83, 83, 76, 58, 47, 47, 108, 111, 99, 97, 108, 104, 111, 115, 116, 58, 57, 48, 57, 50>>,
             <<80, 76, 65, 73, 78, 84, 69, 88, 84, 58, 47, 47, 58, 57, 48, 57, 50>>,
             <<80, 76, 65, 73, 78, 84, 69, 88, 84, 58, 47, 47, 108, 111, 99, 97, 108, 104, 111, 115, 116, 58, 57, 48, 57, 50, 44, 44>>,
             <<80, 76, 65, 73, 78, 84, 69, 88, 84, 58, 47, 47, 49, 50, 55, 46, 48, 46, 48, 46, 49, 58, 57, 48, 57, 50, 44, 83, 83, 76, 58, 47, 47, 91, 58, 58, 49, 93, 58, 57, 48, 57, 50>>}
        AdvertisedSettings ==
            {<<>>,
             <<80, 76, 65, 73, 78, 84, 69, 88, 84, 58, 47, 47, 101, 120, 97, 109, 112, 108, 101, 46, 99, 111, 109, 58, 57, 48, 57, 50>>,
             <<80, 76, 65, 73, 78, 84, 69, 88, 84, 58, 47, 47, 48, 46, 48, 46, 48, 46, 48, 58, 57, 48, 57, 50>>,
             <<44>>,
             <<80, 76, 65, 73, 78, 84, 69, 88, 84, 58, 47, 47, 101, 120, 97, 109, 112, 108, 101, 46, 99, 111, 109, 58, 57, 48, 57, 50, 44, 83, 83, 76, 58, 47, 47, 101, 120, 97, 109, 112, 108, 101, 46, 99, 111, 109, 58, 57, 48, 57, 50>>}
        BrokerIdSettings ==
            {<<53>>, <<49, 48, 48, 49>>, <<97, 98, 99>>, <<45, 49>>,
             <<45, 52, 50, 57, 52, 57, 54, 55, 50, 57, 53>>}
    IN  {[k \in Settings |->
             CASE k = "listeners" -> l
               [] k = "advertised.listeners" -> a
               [] k = "listener.security.protocol.map" -> m
               [] OTHER -> id] :
            l \in SettingOf(ListenersSettings), a \in SettingOf(AdvertisedSettings),
            m \in SettingOf(MapInputs), id \in SettingOf(BrokerIdSettings)}

\* Either a string for parseListener with the protocol map in the
\* environment, or an environment for NewBroker.
BrkInit ==
    /\ cfgPc = "input"
    /\ \/ /\ cfgArg \in ListenerStrings
          /\ env \in {e \in EnvInputs : ~e["listeners"].set /\ ~e["advertised.listeners"].set
                                         /\ ~e["broker.id"].set}
       \/ /\ cfgArg = <<>>
          /\ env \in EnvInputs
    /\ broker = ZeroBroker
    /\ cfgOut = [broker |-> ZeroBroker, listener |-> ZeroListener, err |-> NilError]
    /\ CodecUnused
    /\ RegUnused
    /\ SecUnused
    /\ LogUnused

CallParseListener ==
    /\ cfgPc = "input"
    /\ LET Returned(r) == [broker |-> ZeroBroker, listener |-> r.listener, err |-> r.err]
       IN  cfgOut' = Returned(parseListener(cfgArg))
    /\ cfgPc' = "parseListener"
    /\ UNCHANGED <<env, cfgArg, broker>>
    /\ UNCHANGED <<codecVars, regVars, secVars, logVars>>

CallNewBroker ==
    /\ cfgPc = "input"
    /\ LET Returned(r) == [broker |-> r.broker, listener |-> ZeroListener, err |-> r.err]
       IN  cfgOut' = Returned(NewBroker)
    /\ cfgPc' = "NewBroker"
    /\ UNCHANGED <<env, cfgArg, broker>>
    /\ UNCHANGED <<codecVars, regVars, secVars, logVars>>

BrkNext ==
    \/ CallParseListener
    \/ CallNewBroker

SpecBroker == BrkInit /\ [][BrkNext]_vars

-----------------------------------------------------------------------------
(* The claims about parseListener and NewBroker, under SpecBroker. *)

\* the entries of listener.security.protocol.map, spaces removed
MapEntries == Split(ReplaceAll(env["listener.security.protocol.map"].val, 32), 44)

\* the entry is "name:protocol" with a name that equals the scheme but for
\* case and a protocol that is one of the four
MapsTo(entry, scheme, protocol) ==
    /\ Len(Split(entry, 58)) = 2
    /\ EqualFold(Split(entry, 58)[1], scheme)
    /\ ParseSecurityProtocol(Split(entry, 58)[2]) = [protocol |-> protocol, ok |-> TRUE]

\* l is a listener "scheme://host:port" with a port number, whose scheme is
\* not one of the four security protocols
IsCustomListener(l) ==
    /\ ParseURL(l).err = NilError
    /\ ~ParseSecurityProtocol(ParseURL(l).Scheme).ok
    /\ SplitHostPort(ParseURL(l).Host).err = NilError
    /\ Atoi(SplitHostPort(ParseURL(l).Host).port).err = NilError

\* C13: for a listener whose scheme is not one of the four security
\* protocols, parseListener succeeds exactly when the protocol map holds an
\* entry for the scheme (case ignored) with a recognised protocol, and then
\* returns that protocol with the scheme as ListenerName; otherwise (empty
\* map, name missing, unknown protocol, malformed entry) it returns an error
\* and the zero Listener.
CustomListenerName ==
    (cfgPc = "parseListener" /\ IsCustomListener(cfgArg))
        => IF \E i \in 1..Len(MapEntries) : \E sp \in PLAINTEXT..SASL_SSL :
                  MapsTo(MapEntries[i], ParseURL(cfgArg).Scheme, sp)
           THEN /\ cfgOut.err = NilError
                /\ cfgOut.listener.ListenerName = ParseURL(cfgArg).Scheme
                /\ \E i \in 1..Len(MapEntries) :
                       MapsTo(MapEntries[i], ParseURL(cfgArg).Scheme,
                              cfgOut.listener.SecurityProtocol)
           ELSE /\ cfgOut.err # NilError
                /\ cfgOut.err # IndexOutOfRange
                /\ cfgOut.listener = ZeroListener

\* C14: when advertised.listeners is unset or empty and listeners is set, the
\* broker that NewBroker returns has the parsed listeners as its
\* AdvertisedListeners, and that list is not empty.
AdvertisedFallback ==
    (/\ cfgPc = "NewBroker"
     /\ cfgOut.err = NilError
     /\ env["listeners"].set
     /\ env["advertised.listeners"].val = <<>>)
        => /\ cfgOut.broker.AdvertisedListeners.elems = cfgOut.broker.Listeners.elems
           /\ SliceLen(cfgOut.broker.AdvertisedListeners) > 0

-----------------------------------------------------------------------------
(* The logger.  Its strings are sequences of bytes.  A buffer holds the    *)
(* appends made to it, each with the bytes appended and their number; the  *)
(* time of a line is left out, and a message is kept once for the times it *)
(* is repeated.  Goroutines call Handle on the handlers concurrently, and  *)
(* each statement of Handle that touches the pool, the mutex or the writer *)
(* is a step.                                                              *)

\* goroutines that call Handle, once each
NumGoroutines == 2

maxBufferSize == 16384

\* NewCustomHandler(out, nil): the level is slog.LevelInfo, mutex 1 is made
\* for the handler and out is writer 1
NewCustomHandler ==
    [level |-> 0, preformatted |-> <<>>, unopenedGroups |-> <<>>, indentLevel |-> 0,
     mu |-> 1, out |-> 1]

\* runtime.growslice for bytes, an append that brings a buffer of capacity
\* oldCap to the length newLen: the capacity becomes the length needed when
\* that is more than twice the capacity, twice the capacity below 256, else it
\* grows by a quarter and 192 until the length fits; it is then rounded up to
\* the next size class of the allocator, or to whole pages of 8192 bytes above
\* 32768.  An append that fits leaves the capacity.
growslice(oldCap, newLen) ==
    LET SizeClasses ==
            {8, 16, 24, 32, 48, 64, 80, 96, 112, 128, 144, 160, 176, 192, 208, 224, 240, 256,
             288, 320, 352, 384, 416, 448, 480, 512, 576, 640, 704, 768, 896, 1024,
             1152, 1280, 1408, 1536, 1792, 2048, 2304, 2688, 3072, 3200, 3456, 4096, 4864,
             5376, 6144, 6528, 6784, 6912, 8192, 9472, 9728, 10240, 10880, 12288,
             13568, 14336, 16384, 18432, 19072, 20480, 21760, 24576, 27264, 28672, 32768}
        roundupsize(n) ==
            IF n > 32768 THEN ((n + 8191) \div 8192) * 8192
            ELSE CHOOSE c \in SizeClasses :
                     c >= n /\ \A d \in SizeClasses : d >= n => c <= d
        RECURSIVE nextslicecap(_)
        nextslicecap(newcap) ==
            IF newcap >= newLen THEN newcap
            ELSE nextslicecap(newcap + ((newcap + 768) \div 4))
    IN  IF newLen <= oldCap THEN oldCap
        ELSE IF newLen > 2 * oldCap THEN roundupsize(newLen)
        ELSE IF oldCap < 256 THEN roundupsize(2 * oldCap)
        ELSE roundupsize(nextslicecap(oldCap + ((oldCap + 768) \div 4)))

\* strconv.AppendQuote(buf, s) for a buffer of length len and capacity cap:
\* the length and the capacity after it.  A buffer that has no room for the
\* bytes of s is replaced by one of capacity len + 1 + len(s) + 1.  Then a
\* quote is appended, what each rune of s is written as, and a quote.  The
\* runes are read from the bytes of s (the loop stops at every byte but those
\* that continue the encoding of a rune); a byte that starts no rune is
\* written \x and two digits, a quote and a backslash after a backslash, a
\* printable rune as it is, \a \b \f \n \r \t \v so, another control
\* character \x and two digits, another rune \u and four digits or \U and
\* eight.  Appends[i] are the sizes of the appends made for byte i; appends
\* that fit as a whole leave the capacity and are taken together (Run).
AppendQuote(len, cap, s) ==
    LET Cont(i) == i <= Len(s) /\ s[i] >= 128 /\ s[i] <= 191
        \* utf8.DecodeRuneInString at byte i: the width of the rune, 0 for none
        Width(i) ==
            IF s[i] < 128 THEN 1
            ELSE IF s[i] >= 194 /\ s[i] <= 223 /\ Cont(i + 1) THEN 2
            ELSE IF /\ s[i] >= 224 /\ s[i] <= 239
                    /\ Cont(i + 1) /\ Cont(i + 2)
                    /\ (s[i] = 224 => s[i + 1] >= 160)
                    /\ (s[i] = 237 => s[i + 1] <= 159)
            THEN 3
            ELSE IF /\ s[i] >= 240 /\ s[i] <= 244
                    /\ Cont(i + 1) /\ Cont(i + 2) /\ Cont(i + 3)
                    /\ (s[i] = 240 => s[i + 1] >= 144)
                    /\ (s[i] = 244 => s[i + 1] <= 143)
            THEN 4
            ELSE 0
        Rune(i, w) ==
            IF w = 1 THEN s[i]
            ELSE IF w = 2 THEN (s[i] - 192) * 64 + (s[i + 1] - 128)
            ELSE IF w = 3
            THEN (s[i] - 224) * 4096 + (s[i + 1] - 128) * 64 + (s[i + 2] - 128)
            ELSE (s[i] - 240) * 262144 + (s[i + 1] - 128) * 4096 + (s[i + 2] - 128) * 64
                 + (s[i + 3] - 128)
        \* byte i continues the encoding of a rune that starts before it
        Inside(i) ==
            Cont(i) /\ \E j \in {i - 3, i - 2, i - 1} : j >= 1 /\ Width(j) > i - j
        \* the runes above U+00FF that strconv.IsPrint holds printable: letters,
        \* marks, numbers, punctuation and symbols of Unicode 15, as ranges in order
        Printable ==
            <<<<256, 887>>, <<890, 895>>, <<900, 906>>, <<908, 908>>, <<910, 929>>,
             <<931, 1327>>, <<1329, 1366>>, <<1369, 1418>>, <<1421, 1423>>, <<1425, 1479>>,
             <<1488, 1514>>, <<1519, 1524>>, <<1542, 1563>>, <<1565, 1756>>, <<1758, 1805>>,
             <<1808, 1866>>, <<1869, 1969>>, <<1984, 2042>>, <<2045, 2093>>, <<2096, 2110>>,
             <<2112, 2139>>, <<2142, 2142>>, <<2144, 2154>>, <<2160, 2190>>, <<2200, 2273>>,
             <<2275, 2435>>, <<2437, 2444>>, <<2447, 2448>>, <<2451, 2472>>, <<2474, 2480>>,
             <<2482, 2482>>, <<2486, 2489>>, <<2492, 2500>>, <<2503, 2504>>, <<2507, 2510>>,
             <<2519, 2519>>, <<2524, 2525>>, <<2527, 2531>>, <<2534, 2558>>, <<2561, 2563>>,
             <<2565, 2570>>, <<2575, 2576>>, <<2579, 2600>>, <<2602, 2608>>, <<2610, 2611>>,
             <<2613, 2614>>, <<2616, 2617>>, <<2620, 2620>>, <<2622, 2626>>, <<2631, 2632>>,
             <<2635, 2637>>, <<2641, 2641>>, <<2649, 2652>>, <<2654, 2654>>, <<2662, 2678>>,
             <<2689, 2691>>, <<2693, 2701>>, <<2703, 2705>>, <<2707, 2728>>, <<2730, 2736>>,
             <<2738, 2739>>, <<2741, 2745>>, <<2748, 2757>>, <<2759, 2761>>, <<2763, 2765>>,
             <<2768, 2768>>, <<2784, 2787>>, <<2790, 2801>>, <<2809, 2815>>, <<2817, 2819>>,
             <<2821, 2828>>, <<2831, 2832>>, <<2835, 2856>>, <<2858, 2864>>, <<2866, 2867>>,
             <<2869, 2873>>, <<2876, 2884>>, <<2887, 2888>>, <<2891, 2893>>, <<2901, 2903>>,
             <<2908, 2909>>, <<2911, 2915>>, <<2918, 2935>>, <<2946, 2947>>, <<2949, 2954>>,
             <<2958, 2960>>, <<2962, 2965>>, <<2969, 2970>>, <<2972, 2972>>, <<2974, 2975>>,
             <<2979, 2980>>, <<2984, 2986>>, <<2990, 3001>>, <<3006, 3010>>, <<3014, 3016>>,
             <<3018, 3021>>, <<3024, 3024>>, <<3031, 3031>>, <<3046, 3066>>, <<3072, 3084>>,
             <<3086, 3088>>, <<3090, 3112>>, <<3114, 3129>>, <<3132, 3140>>, <<3142, 3144>>,
             <<3146, 3149>>, <<3157, 3158>>, <<3160, 3162>>, <<3165, 3165>>, <<3168, 3171>>,
             <<3174, 3183>>, <<3191, 3212>>, <<3214, 3216>>, <<3218, 3240>>, <<3242, 3251>>,
             <<3253, 3257>>, <<3260, 3268>>, <<3270, 3272>>, <<3274, 3277>>, <<3285, 3286>>,
             <<3293, 3294>>, <<3296, 3299>>, <<3302, 3311>>, <<3313, 3315>>, <<3328, 3340>>,
             <<3342, 3344>>, <<3346, 3396>>, <<3398, 3400>>, <<3402, 3407>>, <<3412, 3427>>,
             <<3430, 3455>>, <<3457, 3459>>, <<3461, 3478>>, <<3482, 3505>>, <<3507, 3515>>,
             <<3517, 3517>>, <<3520, 3526>>, <<3530, 3530>>, <<3535, 3540>>, <<3542, 3542>>,
             <<3544, 3551>>, <<3558, 3567>>, <<3570, 3572>>, <<3585, 3642>>, <<3647, 3675>>,
             <<3713, 3714>>, <<3716, 3716>>, <<3718, 3722>>, <<3724, 3747>>, <<3749, 3749>>,
             <<3751, 3773>>, <<3776, 3780>>, <<3782, 3782>>, <<3784, 3790>>, <<3792, 3801>>,
             <<3804, 3807>>, <<3840, 3911>>, <<3913, 3948>>, <<3953, 3991>>, <<3993, 4028>>,
             <<4030, 4044>>, <<4046, 4058>>, <<4096, 4293>>, <<4295, 4295>>, <<4301, 4301>>,
             <<4304, 4680>>, <<4682, 4685>>, <<4688, 4694>>, <<4696, 4696>>, <<4698, 4701>>,
             <<4704, 4744>>, <<4746, 4749>>, <<4752, 4784>>, <<4786, 4789>>, <<4792, 4798>>,
             <<4800, 4800>>, <<4802, 4805>>, <<4808, 4822>>, <<4824, 4880>>, <<4882, 4885>>,
             <<4888, 4954>>, <<4957, 4988>>, <<4992, 5017>>, <<5024, 5109>>, <<5112, 5117>>,
             <<5120, 5759>>, <<5761, 5788>>, <<5792, 5880>>, <<5888, 5909>>, <<5919, 5942>>,
             <<5952, 5971>>, <<5984, 5996>>, <<5998, 6000>>, <<6002, 6003>>, <<6016, 6109>>,
             <<6112, 6121>>, <<6128, 6137>>, <<6144, 6157>>, <<6159, 6169>>, <<6176, 6264>>,
             <<6272, 6314>>, <<6320, 6389>>, <<6400, 6430>>, <<6432, 6443>>, <<6448, 6459>>,
             <<6464, 6464>>, <<6468, 6509>>, <<6512, 6516>>, <<6528, 6571>>, <<6576, 6601>>,
             <<6608, 6618>>, <<6622, 6683>>, <<6686, 6750>>, <<6752, 6780>>, <<6783, 6793>>,
             <<6800, 6809>>, <<6816, 6829>>, <<6832, 6862>>, <<6912, 6988>>, <<6992, 7038>>,
             <<7040, 7155>>, <<7164, 7223>>, <<7227, 7241>>, <<7245, 7304>>, <<7312, 7354>>,
             <<7357, 7367>>, <<7376, 7418>>, <<7424, 7957>>, <<7960, 7965>>, <<7968, 8005>>,
             <<8008, 8013>>, <<8016, 8023>>, <<8025, 8025>>, <<8027, 8027>>, <<8029, 8029>>,
             <<8031, 8061>>, <<8064, 8116>>, <<8118, 8132>>, <<8134, 8147>>, <<8150, 8155>>,
             <<8157, 8175>>, <<8178, 8180>>, <<8182, 8190>>, <<8208, 8231>>, <<8240, 8286>>,
             <<8304, 8305>>, <<8308, 8334>>, <<8336, 8348>>, <<8352, 8384>>, <<8400, 8432>>,
             <<8448, 8587>>, <<8592, 9254>>, <<9280, 9290>>, <<9312, 11123>>, <<11126, 11157>>,
             <<11159, 11507>>, <<11513, 11557>>, <<11559, 11559>>, <<11565, 11565>>,
             <<11568, 11623>>, <<11631, 11632>>, <<11647, 11670>>, <<11680, 11686>>,
             <<11688, 11694>>, <<11696, 11702>>, <<11704, 11710>>, <<11712, 11718>>,
             <<11720, 11726>>, <<11728, 11734>>, <<11736, 11742>>, <<11744, 11869>>,
             <<11904, 11929>>, <<11931, 12019>>, <<12032, 12245>>, <<12272, 12283>>,
             <<12289, 12351>>, <<12353, 12438>>, <<12441, 12543>>, <<12549, 12591>>,
             <<12593, 12686>>, <<12688, 12771>>, <<12784, 12830>>, <<12832, 42124>>,
             <<42128, 42182>>, <<42192, 42539>>, <<42560, 42743>>, <<42752, 42954>>,
             <<42960, 42961>>, <<42963, 42963>>, <<42965, 42969>>, <<42994, 43052>>,
             <<43056, 43065>>, <<43072, 43127>>, <<43136, 43205>>, <<43214, 43225>>,
             <<43232, 43347>>, <<43359, 43388>>, <<43392, 43469>>, <<43471, 43481>>,
             <<43486, 43518>>, <<43520, 43574>>, <<43584, 43597>>, <<43600, 43609>>,
             <<43612, 43714>>, <<43739, 43766>>, <<43777, 43782>>, <<43785, 43790>>,
             <<43793, 43798>>, <<43808, 43814>>, <<43816, 43822>>, <<43824, 43883>>,
             <<43888, 44013>>, <<44016, 44025>>, <<44032, 55203>>, <<55216, 55238>>,
             <<55243, 55291>>, <<63744, 64109>>, <<64112, 64217>>, <<64256, 64262>>,
             <<64275, 64279>>, <<64285, 64310>>, <<64312, 64316>>, <<64318, 64318>>,
             <<64320, 64321>>, <<64323, 64324>>, <<64326, 64450>>, <<64467, 64911>>,
             <<64914, 64967>>, <<64975, 64975>>, <<65008, 65049>>, <<65056, 65106>>,
             <<65108, 65126>>, <<65128, 65131>>, <<65136, 65140>>, <<65142, 65276>>,
             <<65281, 65470>>, <<65474, 65479>>, <<65482, 65487>>, <<65490, 65495>>,
             <<65498, 65500>>, <<65504, 65510>>, <<65512, 65518>>, <<65532, 65533>>,
             <<65536, 65547>>, <<65549, 65574>>, <<65576, 65594>>, <<65596, 65597>>,
             <<65599, 65613>>, <<65616, 65629>>, <<65664, 65786>>, <<65792, 65794>>,
             <<65799, 65843>>, <<65847, 65934>>, <<65936, 65948>>, <<65952, 65952>>,
             <<66000, 66045>>, <<66176, 66204>>, <<66208, 66256>>, <<66272, 66299>>,
             <<66304, 66339>>, <<66349, 66378>>, <<66384, 66426>>, <<66432, 66461>>,
             <<66463, 66499>>, <<66504, 66517>>, <<66560, 66717>>, <<66720, 66729>>,
             <<66736, 66771>>, <<66776, 66811>>, <<66816, 66855>>, <<66864, 66915>>,
             <<66927, 66938>>, <<66940, 66954>>, <<66956, 66962>>, <<66964, 66965>>,
             <<66967, 66977>>, <<66979, 66993>>, <<66995, 67001>>, <<67003, 67004>>,
             <<67072, 67382>>, <<67392, 67413>>, <<67424, 67431>>, <<67456, 67461>>,
             <<67463, 67504>>, <<67506, 67514>>, <<67584, 67589>>, <<67592, 67592>>,
             <<67594, 67637>>, <<67639, 67640>>, <<67644, 67644>>, <<67647, 67669>>,
             <<67671, 67742>>, <<67751, 67759>>, <<67808, 67826>>, <<67828, 67829>>,
             <<67835, 67867>>, <<67871, 67897>>, <<67903, 67903>>, <<67968, 68023>>,
             <<68028, 68047>>, <<68050, 68099>>, <<68101, 68102>>, <<68108, 68115>>,
             <<68117, 68119>>, <<68121, 68149>>, <<68152, 68154>>, <<68159, 68168>>,
             <<68176, 68184>>, <<68192, 68255>>, <<68288, 68326>>, <<68331, 68342>>,
             <<68352, 68405>>, <<68409, 68437>>, <<68440, 68466>>, <<68472, 68497>>,
             <<68505, 68508>>, <<68521, 68527>>, <<68608, 68680>>, <<68736, 68786>>,
             <<68800, 68850>>, <<68858, 68903>>, <<68912, 68921>>, <<69216, 69246>>,
             <<69248, 69289>>, <<69291, 69293>>, <<69296, 69297>>, <<69373, 69415>>,
             <<69424, 69465>>, <<69488, 69513>>, <<69552, 69579>>, <<69600, 69622>>,
             <<69632, 69709>>, <<69714, 69749>>, <<69759, 69820>>, <<69822, 69826>>,
             <<69840, 69864>>, <<69872, 69881>>, <<69888, 69940>>, <<69942, 69959>>,
             <<69968, 70006>>, <<70016, 70111>>, <<70113, 70132>>, <<70144, 70161>>,
             <<70163, 70209>>, <<70272, 70278>>, <<70280, 70280>>, <<70282, 70285>>,
             <<70287, 70301>>, <<70303, 70313>>, <<70320, 70378>>, <<70384, 70393>>,
             <<70400, 70403>>, <<70405, 70412>>, <<70415, 70416>>, <<70419, 70440>>,
             <<70442, 70448>>, <<70450, 70451>>, <<70453, 70457>>, <<70459, 70468>>,
             <<70471, 70472>>, <<70475, 70477>>, <<70480, 70480>>, <<70487, 70487>>,
             <<70493, 70499>>, <<70502, 70508>>, <<70512, 70516>>, <<70656, 70747>>,
             <<70749, 70753>>, <<70784, 70855>>, <<70864, 70873>>, <<71040, 71093>>,
             <<71096, 71133>>, <<71168, 71236>>, <<71248, 71257>>, <<71264, 71276>>,
             <<71296, 71353>>, <<71360, 71369>>, <<71424, 71450>>, <<71453, 71467>>,
             <<71472, 71494>>, <<71680, 71739>>, <<71840, 71922>>, <<71935, 71942>>,
             <<71945, 71945>>, <<71948, 71955>>, <<71957, 71958>>, <<71960, 71989>>,
             <<71991, 71992>>, <<71995, 72006>>, <<72016, 72025>>, <<72096, 72103>>,
             <<72106, 72151>>, <<72154, 72164>>, <<72192, 72263>>, <<72272, 72354>>,
             <<72368, 72440>>, <<72448, 72457>>, <<72704, 72712>>, <<72714, 72758>>,
             <<72760, 72773>>, <<72784, 72812>>, <<72816, 72847>>, <<72850, 72871>>,
             <<72873, 72886>>, <<72960, 72966>>, <<72968, 72969>>, <<72971, 73014>>,
             <<73018, 73018>>, <<73020, 73021>>, <<73023, 73031>>, <<73040, 73049>>,
             <<73056, 73061>>, <<73063, 73064>>, <<73066, 73102>>, <<73104, 73105>>,
             <<73107, 73112>>, <<73120, 73129>>, <<73440, 73464>>, <<73472, 73488>>,
             <<73490, 73530>>, <<73534, 73561>>, <<73648, 73648>>, <<73664, 73713>>,
             <<73727, 74649>>, <<74752, 74862>>, <<74864, 74868>>, <<74880, 75075>>,
             <<77712, 77810>>, <<77824, 78895>>, <<78912, 78933>>, <<82944, 83526>>,
             <<92160, 92728>>, <<92736, 92766>>, <<92768, 92777>>, <<92782, 92862>>,
             <<92864, 92873>>, <<92880, 92909>>, <<92912, 92917>>, <<92928, 92997>>,
             <<93008, 93017>>, <<93019, 93025>>, <<93027, 93047>>, <<93053, 93071>>,
             <<93760, 93850>>, <<93952, 94026>>, <<94031, 94087>>, <<94095, 94111>>,
             <<94176, 94180>>, <<94192, 94193>>, <<94208, 100343>>, <<100352, 101589>>,
             <<101632, 101640>>, <<110576, 110579>>, <<110581, 110587>>, <<110589, 110590>>,
             <<110592, 110882>>, <<110898, 110898>>, <<110928, 110930>>, <<110933, 110933>>,
             <<110948, 110951>>, <<110960, 111355>>, <<113664, 113770>>, <<113776, 113788>>,
             <<113792, 113800>>, <<113808, 113817>>, <<113820, 113823>>, <<118528, 118573>>,
             <<118576, 118598>>, <<118608, 118723>>, <<118784, 119029>>, <<119040, 119078>>,
             <<119081, 119154>>, <<119163, 119274>>, <<119296, 119365>>, <<119488, 119507>>,
             <<119520, 119539>>, <<119552, 119638>>, <<119648, 119672>>, <<119808, 119892>>,
             <<119894, 119964>>, <<119966, 119967>>, <<119970, 119970>>, <<119973, 119974>>,
             <<119977, 119980>>, <<119982, 119993>>, <<119995, 119995>>, <<119997, 120003>>,
             <<120005, 120069>>, <<120071, 120074>>, <<120077, 120084>>, <<120086, 120092>>,
             <<120094, 120121>>, <<120123, 120126>>, <<120128, 120132>>, <<120134, 120134>>,
             <<120138, 120144>>, <<120146, 120485>>, <<120488, 120779>>, <<120782, 121483>>,
             <<121499, 121503>>, <<121505, 121519>>, <<122624, 122654>>, <<122661, 122666>>,
             <<122880, 122886>>, <<122888, 122904>>, <<122907, 122913>>, <<122915, 122916>>,
             <<122918, 122922>>, <<122928, 122989>>, <<123023, 123023>>, <<123136, 123180>>,
             <<123184, 123197>>, <<123200, 123209>>, <<123214, 123215>>, <<123536, 123566>>,
             <<123584, 123641>>, <<123647, 123647>>, <<124112, 124153>>, <<124896, 124902>>,
             <<124904, 124907>>, <<124909, 124910>>, <<124912, 124926>>, <<124928, 125124>>,
             <<125127, 125142>>, <<125184, 125259>>, <<125264, 125273>>, <<125278, 125279>>,
             <<126065, 126132>>, <<126209, 126269>>, <<126464, 126467>>, <<126469, 126495>>,
             <<126497, 126498>>, <<126500, 126500>>, <<126503, 126503>>, <<126505, 126514>>,
             <<126516, 126519>>, <<126521, 126521>>, <<126523, 126523>>, <<126530, 126530>>,
             <<126535, 126535>>, <<126537, 126537>>, <<126539, 126539>>, <<126541, 126543>>,
             <<126545, 126546>>, <<126548, 126548>>, <<126551, 126551>>, <<126553, 126553>>,
             <<126555, 126555>>, <<126557, 126557>>, <<126559, 126559>>, <<126561, 126562>>,
             <<126564, 126564>>, <<126567, 126570>>, <<126572, 126578>>, <<126580, 126583>>,
             <<126585, 126588>>, <<126590, 126590>>, <<126592, 126601>>, <<126603, 126619>>,
             <<126625, 126627>>, <<126629, 126633>>, <<126635, 126651>>, <<126704, 126705>>,
             <<126976, 127019>>, <<127024, 127123>>, <<127136, 127150>>, <<127153, 127167>>,
             <<127169, 127183>>, <<127185, 127221>>, <<127232, 127405>>, <<127462, 127490>>,
             <<127504, 127547>>, <<127552, 127560>>, <<127568, 127569>>, <<127584, 127589>>,
             <<127744, 128727>>, <<128732, 128748>>, <<128752, 128764>>, <<128768, 128886>>,
             <<128891, 128985>>, <<128992, 129003>>, <<129008, 129008>>, <<129024, 129035>>,
             <<129040, 129095>>, <<129104, 129113>>, <<129120, 129159>>, <<129168, 129197>>,
             <<129200, 129201>>, <<129280, 129619>>, <<129632, 129645>>, <<129648, 129660>>,
             <<129664, 129672>>, <<129680, 129725>>, <<129727, 129733>>, <<129742, 129755>>,
             <<129760, 129768>>, <<129776, 129784>>, <<129792, 129938>>, <<129940, 129994>>,
             <<130032, 130041>>, <<131072, 173791>>, <<173824, 177977>>, <<177984, 178205>>,
             <<178208, 183969>>, <<183984, 191456>>, <<194560, 195101>>, <<196608, 201546>>,
             <<201552, 205743>>, <<917760, 917999>>>>
        \* the search of the table for the range that holds r
        RECURSIVE Search(_, _, _)
        Search(r, lo, hi) ==
            IF lo > hi THEN FALSE
            ELSE IF r < Printable[(lo + hi) \div 2][1] THEN Search(r, lo, (lo + hi) \div 2 - 1)
            ELSE IF r > Printable[(lo + hi) \div 2][2] THEN Search(r, (lo + hi) \div 2 + 1, hi)
            ELSE TRUE
        IsPrint(r) ==
            IF r <= 255 THEN (r >= 32 /\ r <= 126) \/ (r >= 161 /\ r # 173)
            ELSE Search(r, 1, Len(Printable))
        \* appendEscapedRune
        Escaped(r, w) ==
            IF r \in {34, 92} THEN <<1, 1>>
            ELSE IF IsPrint(r) THEN <<w>>
            ELSE IF r \in {7, 8, 9, 10, 11, 12, 13} THEN <<2>>
            ELSE IF r < 32 \/ r = 127 THEN <<2, 1, 1>>
            ELSE IF r < 65536 THEN <<2, 1, 1, 1, 1>>
            ELSE <<2, 1, 1, 1, 1, 1, 1, 1, 1>>
        Decoded(i, w) == IF w = 0 THEN <<2, 1, 1>> ELSE Escaped(Rune(i, w), w)
        Appends == [i \in 1..Len(s) |-> IF Inside(i) THEN <<>> ELSE Decoded(i, Width(i))]
        RECURSIVE Bytes(_, _)
        Bytes(sizes, k) == IF k > Len(sizes) THEN 0 ELSE sizes[k] + Bytes(sizes, k + 1)
        \* the bytes appended for the bytes lo to hi of s
        RECURSIVE Sum(_, _)
        Sum(lo, hi) ==
            IF lo > hi THEN 0
            ELSE IF lo = hi THEN Bytes(Appends[lo], 1)
            ELSE Sum(lo, (lo + hi) \div 2) + Sum((lo + hi) \div 2 + 1, hi)
        append(b, n) == [len |-> b.len + n, cap |-> growslice(b.cap, b.len + n)]
        RECURSIVE Each(_, _, _)
        Each(b, sizes, k) ==
            IF k > Len(sizes) THEN b ELSE Each(append(b, sizes[k]), sizes, k + 1)
        RECURSIVE Run(_, _, _)
        RECURSIVE Fits(_, _, _, _)
        Fits(b, lo, hi, n) ==
            IF b.len + n <= b.cap THEN [len |-> b.len + n, cap |-> b.cap]
            ELSE IF lo = hi THEN Each(b, Appends[lo], 1)
            ELSE Run(Run(b, lo, (lo + hi) \div 2), (lo + hi) \div 2 + 1, hi)
        Run(b, lo, hi) == IF lo > hi THEN b ELSE Fits(b, lo, hi, Sum(lo, hi))
    IN  append(Run(append([len |-> len,
                            cap |-> IF cap - len < Len(s) THEN len + 1 + Len(s) + 1
                                    ELSE cap],
                           1),
                    1, Len(s)),
               1)

\* fmt.Appendf(buf, "%*s%s:\n", indentLevel*4, "", g) for each unopened group:
\* a line "group:", each indented one level more
appendUnopenedGroups(ch, buf, indentLevel) ==
    LET Line(i) == [j \in 1..((indentLevel + i - 1) * 4) |-> 32]
                       \o ch.unopenedGroups[i] \o <<58, 10>>
    IN  buf \o [i \in 1..Len(ch.unopenedGroups) |->
                   [kind |-> "bytes", val |-> Line(i), len |-> Len(Line(i))]]

\* appendAttr for each of the attributes.  An attribute is its key, the kind
\* of its value, the text of the value and, for a group, the attributes of
\* the group; the kinds are String, Time, Group and, for the kinds of the
\* default branch, Int64 and Any, whose value is nil (the value of the empty
\* Attr, which has no key).  The empty Attr appends nothing.  Any other
\* attribute appends its indent, and then: a String " ", the key, ": " and
\* the value quoted; a Time " ", the key, ": " and the value (the appends of
\* AppendFormat are taken as one); a Group nothing when it has no attributes,
\* else its attributes, under a line "key:" and one level deeper when it has
\* a key; any other kind the key, ": ", the value and the end of the line.
RECURSIVE appendAttrs(_, _, _)
appendAttrs(buf, attrs, indentLevel) ==
    IF attrs = <<>> THEN buf
    ELSE LET a == Head(attrs)
             Bytes(s) == [kind |-> "bytes", val |-> s, len |-> Len(s)]
             Quote(s, n) == [kind |-> "quote", val |-> s, len |-> n]
             indent == Bytes([j \in 1..(indentLevel * 4) |-> 32])
         IN  appendAttrs(
                 IF a = [key |-> <<>>, kind |-> "Any", val |-> <<60, 110, 105, 108, 62>>,
                         group |-> <<>>]
                 THEN buf
                 ELSE IF a.kind = "String"
                 THEN buf \o <<indent, Bytes(<<32>>), Bytes(a.key), Bytes(<<58, 32>>),
                                Quote(a.val, AppendQuote(0, 0, a.val).len)>>
                 ELSE IF a.kind = "Time"
                 THEN buf \o <<indent, Bytes(<<32>>), Bytes(a.key), Bytes(<<58, 32>>),
                                Bytes(a.val)>>
                 ELSE IF a.kind = "Group" /\ a.group = <<>>
                 THEN Append(buf, indent)
                 ELSE IF a.kind = "Group" /\ a.key # <<>>
                 THEN appendAttrs(buf \o <<indent, Bytes(a.key \o <<58, 10>>)>>, a.group,
                                  indentLevel + 1)
                 ELSE IF a.kind = "Group"
                 THEN appendAttrs(Append(buf, indent), a.group, indentLevel)
                 ELSE buf \o <<indent, Bytes(a.key), Bytes(<<58, 32>>), Bytes(a.val),
                                Bytes(<<10>>)>>,
                 Tail(attrs), indentLevel)

\* The copy keeps the mutex and the writer of ch.
WithAttrs(ch, attrs) ==
    IF Len(attrs) = 0 THEN ch
    ELSE [ch EXCEPT
             !.preformatted =
                 appendAttrs(appendUnopenedGroups(ch, ch.preformatted, ch.indentLevel),
                             attrs, ch.indentLevel + Len(ch.unopenedGroups)),
             !.indentLevel = ch.indentLevel + Len(ch.unopenedGroups),
             !.unopenedGroups = <<>>]

WithGroup(ch, name) ==
    IF name = <<>> THEN ch
    ELSE [ch EXCEPT !.unopenedGroups = Append(ch.unopenedGroups, name)]

\* The buffer that Handle of ch fills for the record r, whose level is a
\* slog.Level (LevelDebug -4, LevelInfo 0, LevelWarn 4, LevelError 8), whose
\* message is r.msg repeated r.rep times and whose attributes are those of
\* r.attrs that Record.AddAttrs keeps, the ones that are no empty group.
\* level is r.Level.String(), the name of the level at or below r.level and
\* the distance to it; colorLogLevel gives the painted level and the colour
\* of the line; formatLoggerOutput appends "time=", the painted time (here
\* without the time), " level=", the level, " msg=" and the painted message.
\* For a record with attributes follow the unopened groups and the
\* attributes (at Handle's own indentLevel, 0), then the end of the line.
HandleFormat(ch, r) ==
    LET info == <<73, 78, 70, 79>>
        debug == <<68, 69, 66, 85, 71>>
        err == <<69, 82, 82, 79, 82>>
        warn == <<87, 65, 82, 78>>
        RECURSIVE Itoa(_)
        Itoa(n) == IF n < 10 THEN <<48 + n>> ELSE Append(Itoa(n \div 10), 48 + (n % 10))
        str(base, val) ==
            IF val = 0 THEN base
            ELSE IF val > 0 THEN base \o <<43>> \o Itoa(val)
            ELSE base \o <<45>> \o Itoa(0 - val)
        level ==
            IF r.level < 0 THEN str(debug, r.level + 4)
            ELSE IF r.level < 4 THEN str(info, r.level)
            ELSE IF r.level < 8 THEN str(warn, r.level - 4)
            ELSE str(err, r.level - 8)
        painter(colorCode, m) ==
            <<27, 91>> \o Itoa(colorCode) \o <<109>> \o m \o <<27, 91, 48, 109>>
        colorLogLevel ==
            IF level = info THEN [lev |-> painter(32, info), colCode |-> 32]
            ELSE IF level = debug THEN [lev |-> painter(97, debug), colCode |-> 37]
            ELSE IF level = err THEN [lev |-> painter(91, err), colCode |-> 91]
            ELSE IF level = warn THEN [lev |-> painter(33, warn), colCode |-> 33]
            ELSE [lev |-> painter(97, info), colCode |-> 37]
        Bytes(s) == [kind |-> "bytes", val |-> s, len |-> Len(s)]
        formatLoggerOutput(lev, colCode) ==
            <<Bytes(<<116, 105, 109, 101, 61>>),
              [kind |-> "time", val |-> painter(colCode, <<>>),
               len |-> Len(painter(colCode, <<>>))],
              Bytes(<<32, 108, 101, 118, 101, 108, 61>>),
              Bytes(lev),
              Bytes(<<32, 109, 115, 103, 61>>),
              [kind |-> "msg", val |-> painter(colCode, r.msg),
               len |-> Len(painter(colCode, <<>>)) + Len(r.msg) * r.rep]>>
        IsEmptyGroup(a) == a.kind = "Group" /\ a.group = <<>>
        Attrs(buf, attrs) ==
            IF Len(attrs) > 0
            THEN appendAttrs(appendUnopenedGroups(ch, buf, ch.indentLevel), attrs, 0)
            ELSE buf
        Painted(c) ==
            Attrs(formatLoggerOutput(c.lev, c.colCode),
                  SelectSeq(r.attrs, LAMBDA a : ~IsEmptyGroup(a)))
    IN  Append(Painted(colorLogLevel), Bytes(<<10>>))

\* allocBuf: bufPool.Get() hands out a buffer that was put back, which leaves
\* the pool, or one that New makes, of capacity 1024; the outcomes are the
\* buffer and the pool
allocBuf ==
    {[bufp |-> b, pool |-> [bufPool EXCEPT !.free = @ \ {b}]] : b \in bufPool.free}
    \cup {[bufp |-> bufPool.made + 1,
           pool |-> [bufPool EXCEPT !.made = @ + 1, !.cap = Append(@, 1024)]]}

\* the handlers: NewCustomHandler, WithGroup("g") of it and WithAttrs of
\* that with the String attribute k = "v"
LogInit ==
    /\ handlers = <<NewCustomHandler,
                    WithGroup(NewCustomHandler, <<103>>),
                    WithAttrs(WithGroup(NewCustomHandler, <<103>>),
                              <<[key |-> <<107>>, kind |-> "String", val |-> <<118>>,
                                 group |-> <<>>]>>)>>
    /\ mu = <<0>>
    /\ bufPool = [free |-> {}, made |-> 0, cap |-> <<>>]
    /\ gor = [g \in 1..NumGoroutines |->
                 [pc |-> "idle", h |-> 0,
                  r |-> [level |-> 0, msg |-> <<>>, rep |-> 1, attrs |-> <<>>],
                  bufp |-> 0, buf |-> <<>>, cap |-> 0]]
    /\ out = [writes |-> <<>>, inside |-> {}]
    /\ CodecUnused
    /\ RegUnused
    /\ SecUnused
    /\ CfgUnused

\* Handle is called on handler h with the record r: bufp := allocBuf(), and
\* the line is built in the buffer, which is empty and keeps its capacity.
\* Each append that the capacity cannot hold makes the runtime grow the
\* buffer (growslice), and AppendQuote makes room for its string first; a
\* line that the capacity holds as a whole leaves it.  The time, in the
\* layout RFC3339Nano, is 20 bytes long or 22 to 35.
HandleAlloc(g, h, r) ==
    LET Appended(b, p, ts) ==
            IF p.kind = "quote" THEN AppendQuote(b.len, b.cap, p.val)
            ELSE IF p.kind = "time"
            THEN [len |-> b.len + p.len + ts, cap |-> growslice(b.cap, b.len + p.len + ts)]
            ELSE [len |-> b.len + p.len, cap |-> growslice(b.cap, b.len + p.len)]
        RECURSIVE CapAfter(_, _, _, _)
        CapAfter(buf, n, ts, b) ==
            IF n > Len(buf) THEN b.cap
            ELSE CapAfter(buf, n + 1, ts, Appended(b, buf[n], ts))
        \* the bytes of the line from the n-th append on, the time apart
        RECURSIVE Bytes(_, _)
        Bytes(buf, n) == IF n > Len(buf) THEN 0 ELSE buf[n].len + Bytes(buf, n + 1)
        Cap(buf, len, ts, c) ==
            IF len + ts <= c THEN c ELSE CapAfter(buf, 1, ts, [len |-> 0, cap |-> c])
    IN  /\ gor[g].pc = "idle"
        /\ \E line \in {HandleFormat(handlers[h], r)}, a \in allocBuf :
               \E c \in {Cap(line, len, ts, a.pool.cap[a.bufp]) :
                            len \in {Bytes(line, 1)}, ts \in {20} \cup 22..35} :
                   /\ bufPool' = a.pool
                   /\ gor' = [gor EXCEPT ![g] =
                                 [pc |-> "formatted", h |-> h, r |-> r, bufp |-> a.bufp,
                                  buf |-> line, cap |-> c]]
        /\ UNCHANGED <<handlers, mu, out>>
        /\ UNCHANGED <<codecVars, regVars, secVars, cfgVars>>

\* a slip: Handle goes on to write without taking the mutex
HandleLockSkipped(g) ==
    /\ gor[g].pc = "formatted"
    /\ gor' = [gor EXCEPT ![g].pc = "locked"]
    /\ UNCHANGED <<handlers, mu, bufPool, out>>
    /\ UNCHANGED <<codecVars, regVars, secVars, cfgVars>>

\* ch.mu.Lock(): waits until the mutex is unlocked
HandleLock(g) ==
    /\ gor[g].pc = "formatted"
    /\ mu[handlers[gor[g].h].mu] = 0
    /\ mu' = [mu EXCEPT ![handlers[gor[g].h].mu] = g]
    /\ gor' = [gor EXCEPT ![g].pc = "locked"]
    /\ UNCHANGED <<handlers, bufPool, out>>
    /\ UNCHANGED <<codecVars, regVars, secVars, cfgVars>>

\* ch.out.Write(buf) begins
HandleWrite(g) ==
    /\ gor[g].pc = "locked"
    /\ out' = [writes |-> Append(out.writes, [g |-> g, p |-> gor[g].buf]),
               inside |-> out.inside \cup {g}]
    /\ gor' = [gor EXCEPT ![g].pc = "writing"]
    /\ UNCHANGED <<handlers, mu, bufPool>>
    /\ UNCHANGED <<codecVars, regVars, secVars, cfgVars>>

\* ch.out.Write(buf) returns
HandleWritten(g) ==
    /\ gor[g].pc = "writing"
    /\ out' = [out EXCEPT !.inside = @ \ {g}]
    /\ gor' = [gor EXCEPT ![g].pc = "written"]
    /\ UNCHANGED <<handlers, mu, bufPool>>
    /\ UNCHANGED <<codecVars, regVars, secVars, cfgVars>>

\* the deferred ch.mu.Unlock(), which runs first
HandleUnlock(g) ==
    /\ gor[g].pc = "written"
    /\ mu' = [mu EXCEPT ![handlers[gor[g].h].mu] = 0]
    /\ gor' = [gor EXCEPT ![g].pc = "unlocked"]
    /\ UNCHANGED <<handlers, bufPool, out>>
    /\ UNCHANGED <<codecVars, regVars, secVars, cfgVars>>

\* the deferred *bufp = buf and freeBuf(bufp): the buffer, which keeps the
\* capacity it has grown to, is emptied and put back in the pool unless its
\* capacity is above maxBufferSize
HandleFree(g) ==
    /\ gor[g].pc = "unlocked"
    /\ bufPool' = IF gor[g].cap <= maxBufferSize
                  THEN [bufPool EXCEPT !.cap[gor[g].bufp] = gor[g].cap,
                                       !.free = @ \cup {gor[g].bufp}]
                  ELSE [bufPool EXCEPT !.cap[gor[g].bufp] = gor[g].cap]
    /\ gor' = [gor EXCEPT ![g].pc = "done", ![g].bufp = 0, ![g].buf = <<>>, ![g].cap = 0]
    /\ UNCHANGED <<handlers, mu, out>>
    /\ UNCHANGED <<codecVars, regVars, secVars, cfgVars>>

\* The records logged: at LevelDebug the message "stopped" with attributes of
\* each kind, a String that AppendQuote escapes (a, a quote, e acute,
\* U+1FAE8, which is printable since Unicode 15, and a newline), the empty
\* Attr, a group with a key and one without among them,
\* and the empty group "none", which the record does not keep; and at
\* LevelError a message of 20000 bytes, "x" repeated, without attributes.
LogNext ==
    \E g \in 1..NumGoroutines :
        \/ \E h \in 1..Len(handlers) :
               \E r \in {[level |-> -4, msg |-> <<115, 116, 111, 112, 112, 101, 100>>,
                          rep |-> 1,
                          attrs |-> <<[key |-> <<99, 111, 100, 101>>, kind |-> "String",
                                       val |-> <<97, 34, 195, 169, 240, 159, 171, 168, 10>>,
                                       group |-> <<>>],
                                      [key |-> <<>>, kind |-> "Any",
                                       val |-> <<60, 110, 105, 108, 62>>, group |-> <<>>],
                                      [key |-> <<97, 116>>, kind |-> "Time",
                                       val |-> <<50, 48, 50, 52, 45, 48, 49, 45, 48, 50, 84,
                                                 48, 51, 58, 48, 52, 58, 48, 53, 90>>,
                                       group |-> <<>>],
                                      [key |-> <<114, 101, 113>>, kind |-> "Group",
                                       val |-> <<>>,
                                       group |-> <<[key |-> <<105, 100>>, kind |-> "Int64",
                                                    val |-> <<55>>, group |-> <<>>]>>],
                                      [key |-> <<>>, kind |-> "Group", val |-> <<>>,
                                       group |-> <<[key |-> <<110>>, kind |-> "Int64",
                                                    val |-> <<49>>, group |-> <<>>]>>],
                                      [key |-> <<110, 111, 110, 101>>, kind |-> "Group",
                                       val |-> <<>>, group |-> <<>>]>>],
                         [level |-> 8, msg |-> <<120>>, rep |-> 20000, attrs |-> <<>>]} :
                   HandleAlloc(g, h, r)
        \/ HandleLock(g)
        \/ HandleWrite(g)
        \/ HandleWritten(g)
        \/ HandleUnlock(g)
        \/ HandleFree(g)

SpecLogger == LogInit /\ [][LogNext]_vars

-----------------------------------------------------------------------------
(* The claim about the logger, under SpecLogger. *)

\* the Write calls that goroutine g has made
WritesOf(g) == {i \in 1..Len(out.writes) : out.writes[i].g = g}

\* C15: with Handle called concurrently on a handler and on handlers derived
\* from it by WithGroup and WithAttrs, which share its mutex and writer, no
\* two Writes overlap, each Write is made by the holder of the mutex, each
\* record is emitted by exactly one Write, which carries its line, and a
\* buffer taken from the pool belongs to one Handle call until it is freed.
NoInterleaving ==
    /\ Cardinality(out.inside) <= 1
    /\ \A g \in out.inside : mu[handlers[gor[g].h].mu] = g
    /\ \A h \in 1..Len(handlers) :
           handlers[h].mu = handlers[1].mu /\ handlers[h].out = handlers[1].out
    /\ \A g \in 1..Len(gor) :
           IF gor[g].pc \in {"writing", "written", "unlocked", "done"}
           THEN /\ Cardinality(WritesOf(g)) = 1
                /\ \A i \in WritesOf(g) :
                       out.writes[i].p = HandleFormat(handlers[gor[g].h], gor[g].r)
           ELSE WritesOf(g) = {}
    /\ \A g \in 1..Len(gor) :
           gor[g].bufp # 0
               => /\ gor[g].bufp \notin bufPool.free
                  /\ \A g2 \in 1..Len(gor) : g2 # g => gor[g2].bufp # gor[g].bufp

\* a goroutine is inside Write on the handler made by WithAttrs while another,
\* on the first handler, has its line ready and waits for the mutex
NoInterleavingSeen ==
    /\ gor[1].pc = "writing"
    /\ gor[1].h = 3
    /\ gor[2].pc = "formatted"
    /\ gor[2].h = 1
    /\ mu[1] = 1
    /\ gor[1].bufp # gor[2].bufp

\* two records were written, the second from the buffer that the first call
\* had put back
BufferReusedSeen ==
    /\ \A g \in 1..Len(gor) : gor[g].pc = "done"
    /\ Len(gor) >= 2
    /\ Len(out.writes) = Len(gor)
    /\ bufPool.made = 1

\* a record of 20000 bytes was written from a new buffer, which has grown to
\* 20480 bytes and was not put back in the pool
BufferDroppedSeen ==
    /\ gor[1].pc = "done"
    /\ gor[1].r.rep = 20000
    /\ bufPool.made = 1
    /\ bufPool.cap = <<20480>>
    /\ bufPool.free = {}

====
